---- MODULE Spec2Model ----
(***************************************************************************)
(* State reconciler of hlandau/acme (package storage).                     *)
(*                                                                         *)
(* The state directory and the in-memory Store are separate variables: the *)
(* mutating operations write the directory only, and load() rebuilds the   *)
(* Store from it.  Go map iteration order is a nondeterministic choice.    *)
(* Times are in days.                                                      *)
(***************************************************************************)
EXTENDS Integers, Sequences, FiniteSets, TLC

VARIABLES
  pc,        \* position of the single thread: "idle" or a step of Reconcile
  arg, res,  \* input and result of the pure functions; rcfg and the httpResponder
  now,       \* time.Now(), in days
  \* the state directory
  dDesired,  \* desired/<file>: [names, priority]
  dAccount,  \* accounts/<urlEnc>/<keyID>/privkey exists
  dAuth,     \* accounts/.../authorizations/<name>/expiry
  dKeys,     \* keys/<keyID>/privkey
  dCerts,    \* certs/<certID>: [url, full, privkey]
  dLive,     \* live/<hostname>: the certificate ID linked to
  \* the ACME server
  srv,       \* certificate URL -> the certificate served there
  \* the Store in memory
  open,      \* a Store returned by New exists
  mTargets,  \* s.targets
  mMapping,  \* s.hostnameTargetMapping
  mCerts,    \* s.certs: [url, cached, key]
  mAcct,     \* the Account the loaded targets point to: [init, auths]
  \* Reconcile
  todo,      \* targets the loop of reconcile has not visited yet
  merr,      \* MultiError of reconcile: the failed targets
  err,       \* what reconcile() returned
  last,      \* the last call completed: [op, ret, loadOk]
  notified,  \* the arguments of the notify.Notify calls of the last call
  run        \* history of the current Reconcile (not program state)

----------------------------------------------------------------------------
(* Bounds of the model *)

MaxTargets == 2        \* target files under desired/
MaxSortTargets == 2    \* targets handed to disjoinTargets in SpecDisjoin

(* Hostnames, in lexicographic order *)
HostList == <<"a", "b", "c">>
Hosts == {HostList[i] : i \in 1..Len(HostList)}
HostOrd(h) == CHOOSE i \in 1..Len(HostList) : HostList[i] = h

SeqToSet(s) == {s[i] : i \in 1..Len(s)}

(* every sequence listing the elements of S once: an iteration order of a map *)
RECURSIVE Orders(_)
Orders(S) ==
  IF S = {} THEN {<<>>}
  ELSE UNION {{<<x>> \o o : o \in Orders(S \ {x})} : x \in S}

----------------------------------------------------------------------------
(* Target ordering and disjoining *)

(* sort.Strings of a name list, duplicates kept *)
RECURSIVE InsertName(_, _)
InsertName(s, h) ==
  IF s = <<>> THEN <<h>>
  ELSE IF HostOrd(h) < HostOrd(Head(s)) THEN <<h>> \o s
  ELSE <<Head(s)>> \o InsertName(Tail(s), h)

RECURSIVE SortNames(_)
SortNames(s) == IF s = <<>> THEN <<>> ELSE InsertName(SortNames(Tail(s)), Head(s))

RECURSIVE LexGt(_, _)
LexGt(x, y) ==
  IF x = <<>> THEN FALSE
  ELSE IF y = <<>> THEN TRUE
  ELSE IF HostOrd(Head(x)) # HostOrd(Head(y)) THEN HostOrd(Head(x)) > HostOrd(Head(y))
  ELSE LexGt(Tail(x), Tail(y))

(* targetGt(a, b): a sorts before b when disjoining *)
targetGt(a, b) ==
  IF a.priority # b.priority THEN a.priority > b.priority
  ELSE IF Len(a.names) # Len(b.names) THEN Len(a.names) > Len(b.names)
  ELSE LexGt(SortNames(a.names), SortNames(b.names))

(* targetSorter.Less(i, j), on the target values at i and j *)
LessAscending(ti, tj) == targetGt(ti, tj)
Less(ti, tj) == targetGt(tj, ti)

(* sort.Reverse(targetSorter).Less(i, j) *)
ReverseLess(ti, tj) == Less(tj, ti)

(* sort.Stable(sort.Reverse(...)) on the files listed in `order`: insertion   *)
(* from the back keeps the order of targets neither of which is less.         *)
RECURSIVE StableInsert(_, _, _)
StableInsert(tg, sorted, f) ==
  IF sorted = <<>> THEN <<f>>
  ELSE IF ReverseLess(tg[Head(sorted)], tg[f]) \/ ~ReverseLess(tg[f], tg[Head(sorted)])
       THEN <<Head(sorted)>> \o StableInsert(tg, Tail(sorted), f)
       ELSE <<f>> \o sorted

RECURSIVE StableSort(_, _)
StableSort(tg, order) ==
  IF order = <<>> THEN <<>>
  ELSE StableInsert(tg, StableSort(tg, SubSeq(order, 1, Len(order) - 1)), order[Len(order)])

(* a disjoinTargets that appends every name, claimed or not *)
UnclaimedNoCheck(names, claimed) == names

(* the names of `names` not yet in `claimed`, in order, each once *)
RECURSIVE Unclaimed(_, _)
Unclaimed(names, claimed) ==
  IF names = <<>> THEN <<>>
  ELSE IF Head(names) \in claimed THEN Unclaimed(Tail(names), claimed)
  ELSE <<Head(names)>> \o Unclaimed(Tail(names), claimed \cup {Head(names)})

(* the walk of disjoinTargets over the sorted targets: [reduced, mapping] *)
RECURSIVE DisjoinWalk(_, _, _, _)
DisjoinWalk(tg, sorted, reduced, mapping) ==
  IF sorted = <<>> THEN [reduced |-> reduced, mapping |-> mapping]
  ELSE LET f == Head(sorted)
           r == Unclaimed(tg[f].names, DOMAIN mapping)
       IN  DisjoinWalk(tg, Tail(sorted),
                       [g \in DOMAIN reduced \cup {f} |-> IF g = f THEN r ELSE reduced[g]],
                       [h \in DOMAIN mapping \cup SeqToSet(r) |->
                           IF h \in DOMAIN mapping THEN mapping[h] ELSE f])

(* Store.disjoinTargets; `order` is the iteration order of the s.targets map *)
disjoinTargets(tg, order) == DisjoinWalk(tg, StableSort(tg, order), <<>>, <<>>)

----------------------------------------------------------------------------
(* Certificates and the matcher.  A loaded certificate is a record            *)
(*   chain      len(c.Certificates), 0 while the chain is not in memory       *)
(*   key        c.Key != nil                                                  *)
(*   parses     x509.ParseCertificate(c.Certificates[0]) succeeds             *)
(*   names      DNSNames of the end-entity certificate                        *)
(*   notBefore, notAfter   its validity, in days                              *)

(* hostnames as they can be written: upper case, trailing dot *)
NameForms == {"a", "A", "a.", "A.", "b"}

(* strings.ToLower *)
ToLower(n) == CASE n = "A" -> "a" [] n = "A." -> "a." [] OTHER -> n

(* strings.TrimSuffix(n, ".") *)
TrimSuffixDot(n) == CASE n = "a." -> "a" [] n = "A." -> "A" [] OTHER -> n

(* normalizeNames, for names that validHostname accepts once normalised *)
normalizeName(n) == TrimSuffixDot(ToLower(n))
normalizeNames(names) == [i \in DOMAIN names |-> normalizeName(names[i])]

(* Store.doesCertSatisfy *)
doesCertSatisfy(c, t) ==
  /\ c.chain # 0
  /\ c.key
  /\ c.parses
  /\ \A i \in 1..Len(t.names) : t.names[i] \in c.names

(* Store.certBetterThan *)
certBetterThan(a, b) ==
  IF a.chain <= b.chain \/ b.chain = 0 THEN FALSE
  ELSE IF ~a.parses \/ ~b.parses THEN a.parses /\ ~b.parses
  ELSE a.notAfter > b.notAfter

(* a certificate ID: the hash of a certificate URL *)
CertID(n) == <<"H", n>>

NoCert == <<"none", 0>>

(* the loop of Store.findBestCertificateSatisfying over s.certs in `order` *)
RECURSIVE findBestLoop(_, _, _, _)
findBestLoop(certs, t, order, bestCert) ==
  IF order = <<>> THEN bestCert
  ELSE LET c == Head(order) IN
       findBestLoop(certs, t, Tail(order),
         IF /\ doesCertSatisfy(certs[c], t)
            /\ (bestCert = NoCert \/ certBetterThan(certs[c], certs[bestCert]))
         THEN c ELSE bestCert)

(* Store.findBestCertificateSatisfying: NoCert stands for the error return *)
findBestCertificateSatisfying(certs, t, order) == findBestLoop(certs, t, order, NoCert)

(* what findBestCertificateSatisfying can return, over the iteration orders *)
BestResults(certs, t) ==
  {findBestCertificateSatisfying(certs, t, o) : o \in Orders(DOMAIN certs)}

(* 30 * 24 * time.Hour *)
ThirtyDays == 30

(* renewTime without the 30-day cap *)
renewTimeNoCap(notBefore, notAfter) == notAfter - ((notAfter - notBefore) \div 3)

(* renewTime *)
renewTime(notBefore, notAfter) ==
  LET validityPeriod == notAfter - notBefore
      third == validityPeriod \div 3
      renewSpan == IF third > ThirtyDays THEN ThirtyDays ELSE third
  IN  notAfter - renewSpan

(* Store.certificateNeedsRenewing at time t *)
certificateNeedsRenewing(c, t) ==
  IF c.chain = 0 THEN FALSE
  ELSE IF ~c.parses THEN FALSE
  ELSE ~(t < renewTime(c.notBefore, c.notAfter))

----------------------------------------------------------------------------
(* The state directory, the ACME server and the Store *)

MaxIssue == 2          \* certificate keys created, hence certificates issued
MaxTicks == 1          \* times the clock advances

TickDays == 2 * ThirtyDays     \* the clock advances in steps of 60 days
Validity == 3 * ThirtyDays     \* the server issues 90-day certificates
AuthzLife == ThirtyDays        \* and authorizations that last 30 days
ChainLens == {2}               \* chains of two: end entity and one intermediate

(* certificate URLs: 1..MaxIssue are handed out by the server as it issues;   *)
(* InvalidURL is not an HTTPS URL.                                            *)
InvalidURL == MaxIssue + 1

(* acmeapi.ValidURL *)
ValidURL(u) == u # InvalidURL

(* determineCertificateID: the hash of the URL, as a directory name *)
determineCertificateID(url) == CertID(url)

(* determineKeyIDFromKey: the hash of the public key, as a directory name *)
determineKeyIDFromKey(pk) == <<"K", pk>>

(* accountURLPart and decodeAccountURLPart: a provider URL as a directory     *)
(* name and back                                                              *)
accountURLPart(baseURL) == <<"enc", baseURL>>
decodeAccountURLPart(serverName) == serverName[2]

(* determineAccountID: <server directory>/<key ID> *)
determineAccountID(baseURL, pk) == <<accountURLPart(baseURL), determineKeyIDFromKey(pk)>>

(* a validateKey that takes the directory name for the key ID *)
validateKeyNoCheck(keyID, pk) == TRUE

(* Store.validateKey: whether keys/<keyID>/privkey holding pk is accepted *)
validateKeyID(keyID, pk) == determineKeyIDFromKey(pk) = keyID

(* Store.validateAccount: whether accounts/<serverName>/<accountName>/privkey *)
(* holding pk is accepted                                                     *)
validateAccountID(serverName, accountName, pk) ==
  determineAccountID(decodeAccountURLPart(serverName), pk) = <<serverName, accountName>>

(* Store.validateCert: whether certs/<certID>/url holding url is accepted *)
validateCertID(certID, url) ==
  ValidURL(url) /\ certID = determineCertificateID(url)

Put(f, k, v) == [x \in DOMAIN f \cup {k} |-> IF x = k THEN v ELSE f[x]]

NoAcct == [init |-> FALSE, auths |-> <<>>]

(* a certificate of s.certs as the matcher sees it *)
CertView(mc) ==
  LET x == srv[mc.url] IN
  [chain |-> IF mc.cached THEN x.chain ELSE 0, key |-> mc.key, parses |-> TRUE,
   names |-> x.names, notBefore |-> x.notBefore, notAfter |-> x.notAfter]

CertViews(mc) == [id \in DOMAIN mc |-> CertView(mc[id])]

(* an authorization that never expires *)
IsValidForever(expires) == TRUE

(* Authorization.IsValid *)
IsValid(expires) == now < expires

(* a Store that takes every certificate for cached *)
haveNoUncachedCertificates(mc) == FALSE

(* Store.haveUncachedCertificates *)
haveUncachedCertificates(mc) == \E id \in DOMAIN mc : ~mc[id].cached

----------------------------------------------------------------------------
(* Store.load.  A load is decided by the state directory and by the orders    *)
(* in which Go iterates its maps; LoadResults is every outcome.               *)

(* the directories of certs/ that validateCert accepts *)
GoodCerts ==
  {id \in DOMAIN dCerts : validateCertID(id, dCerts[id].url)}

(* Store.validateCert on an accepted directory: the Certificate it builds *)
validateCert(id) ==
  [url |-> dCerts[id].url,
   cached |-> dCerts[id].full,
   key |-> dCerts[id].full /\ srv[dCerts[id].url].key \in dKeys]

(* Store.loadCerts over the directories `done`: s.certs, and certs/ with the  *)
(* privkey links validateCert rewrites                                        *)
loadCerts(done) ==
  [mCerts |-> [id \in done |-> validateCert(id)],
   dCerts |-> [id \in DOMAIN dCerts |->
                 IF id \in done /\ validateCert(id).key
                 THEN [dCerts[id] EXCEPT !.privkey = TRUE] ELSE dCerts[id]]]

(* Store.loadTargets: every file of desired/, request.names defaulted to      *)
(* satisfy.names                                                              *)
(* whether desired/<file> gives request.names *)
explicitNames(file) == "reqNames" \in DOMAIN file /\ file.reqNames # <<>>

loadTargetsOf(desired) ==
  [f \in DOMAIN desired |->
     [names |-> normalizeNames(desired[f].names),
      reqNames |-> IF explicitNames(desired[f]) THEN desired[f].reqNames
                   ELSE normalizeNames(desired[f].names),
      implicit |-> ~explicitNames(desired[f]),
      priority |-> desired[f].priority]]

loadTargets == loadTargetsOf(dDesired)

(* s.targets once disjoinTargets has set the reducedNames *)
withReducedNames(tg, dj) ==
  [f \in DOMAIN tg |->
     [names |-> tg[f].names, reqNames |-> tg[f].reqNames,
      implicit |-> tg[f].implicit,
      priority |-> tg[f].priority, reduced |-> dj.reduced[f]]]

(* Store.getAccountByProviderString for the default provider, after           *)
(* loadAccounts: the account read from accounts/ or, if there is none, the    *)
(* one createNewAccount makes, whose Authorizations map is not initialised    *)
createNewAccount == [init |-> FALSE, auths |-> <<>>]
getAccountByProviderString ==
  IF dAccount THEN [init |-> TRUE, auths |-> dAuth] ELSE createNewAccount

(* Store.linkTargets: the hostnames it relinks, pick[h] being what            *)
(* findBestCertificateSatisfying returned for h's target                      *)
linkUpdated(mapping, pick) ==
  {h \in DOMAIN mapping :
     pick[h] # NoCert /\ (h \notin DOMAIN dLive \/ dLive[h] # pick[h])}

(* a linkTargets that hands every linked hostname to the hook *)
notifyAllHostnames(up, mapping) == DOMAIN mapping

(* the updatedHostnames linkTargets hands to notify.Notify *)
updatedHostnames(up, mapping) == up

(* a load that fails in loadCerts after the directories `done` *)
LoadFailed(done) ==
  [ok |-> FALSE,
   dCerts |-> loadCerts(done).dCerts, dAccount |-> dAccount, dLive |-> dLive,
   mCerts |-> loadCerts(done).mCerts, mTargets |-> mTargets,
   mMapping |-> mMapping, mAcct |-> mAcct, notify |-> <<>>]

(* a load that succeeds *)
LoadOK(order, pick) ==
  LET lc == loadCerts(DOMAIN dCerts)
      tg == loadTargets
      dj == disjoinTargets(tg, order)
      up == linkUpdated(dj.mapping, pick)
  IN  [ok |-> TRUE,
       dCerts |-> lc.dCerts,
       dAccount |-> dAccount \/ DOMAIN tg # {},
       dLive |-> [h \in DOMAIN dLive \cup up |-> IF h \in up THEN pick[h] ELSE dLive[h]],
       mCerts |-> lc.mCerts,
       mTargets |-> withReducedNames(tg, dj),
       mMapping |-> dj.mapping,
       mAcct |-> IF DOMAIN tg # {} THEN getAccountByProviderString ELSE NoAcct,
       notify |-> <<updatedHostnames(up, dj.mapping)>>]

(* what findBestCertificateSatisfying can hand linkTargets for each hostname *)
LinkPicks(order) ==
  LET lc == loadCerts(DOMAIN dCerts)
      tg == loadTargets
      mapping == disjoinTargets(tg, order).mapping
  IN  {pick \in [DOMAIN mapping -> DOMAIN dCerts \cup {NoCert}] :
         \A h \in DOMAIN mapping :
           pick[h] \in BestResults(CertViews(lc.mCerts), tg[mapping[h]])}

LoadResults ==
  IF GoodCerts # DOMAIN dCerts
  THEN {LoadFailed(done) : done \in SUBSET GoodCerts}
  ELSE UNION {{LoadOK(order, pick) : pick \in LinkPicks(order)} :
                order \in Orders(DOMAIN dDesired)}

----------------------------------------------------------------------------
(* Operations of the Store *)

storeVars ==
  <<dDesired, dAccount, dAuth, dKeys, dCerts, dLive, srv, open,
    mTargets, mMapping, mCerts, mAcct, todo, merr, err, last, notified, run>>

NoRun ==
  [live |-> <<>>, certs |-> {}, keys |-> {}, afterReconcile |-> FALSE,
   satisfied |-> FALSE, calls |-> {}, acmeFailed |-> FALSE,
   attempted |-> {}, renewal |-> {}, issued |-> <<>>]

(* an empty state directory and no Store *)
StoreInit ==
  /\ dDesired = <<>> /\ dAccount = FALSE /\ dAuth = <<>> /\ dKeys = {}
  /\ dCerts = <<>> /\ dLive = <<>>
  /\ srv = <<>>
  /\ open = FALSE
  /\ mTargets = <<>> /\ mMapping = <<>> /\ mCerts = <<>> /\ mAcct = NoAcct
  /\ todo = {} /\ merr = <<>> /\ err = "nil"
  /\ last = [op |-> "none", ret |-> "nil", loadOk |-> FALSE]
  /\ notified = <<>>
  /\ run = NoRun

Init ==
  /\ pc = "idle" /\ arg = <<>> /\ res = <<>> /\ now = 0
  /\ StoreInit

(* the locals of a finished Reconcile and its history are dropped *)
Forget == merr' = <<>> /\ err' = "nil" /\ run' = NoRun

(* the part of a load every caller takes over *)
ApplyLoad(r) ==
  /\ dCerts' = r.dCerts
  /\ dAccount' = r.dAccount
  /\ dLive' = r.dLive

(* storage.New: a Store loaded from the state directory, or the load's error *)
New ==
  /\ pc = "idle"
  /\ \E r \in LoadResults :
       /\ ApplyLoad(r)
       /\ open' = r.ok
       /\ mCerts' = IF r.ok THEN r.mCerts ELSE <<>>
       /\ mTargets' = IF r.ok THEN r.mTargets ELSE <<>>
       /\ mMapping' = IF r.ok THEN r.mMapping ELSE <<>>
       /\ mAcct' = IF r.ok THEN r.mAcct ELSE NoAcct
       /\ notified' = r.notify
       /\ last' = [op |-> "New", ret |-> IF r.ok THEN "nil" ELSE "load", loadOk |-> r.ok]
  /\ Forget
  /\ todo' = {}
  /\ UNCHANGED <<pc, arg, res, now, dDesired, dAuth, dKeys, srv>>

(* the clock advances between calls *)
Tick ==
  /\ pc = "idle"
  /\ now < MaxTicks * TickDays
  /\ now' = now + TickDays
  /\ last' = [op |-> "other", ret |-> "nil", loadOk |-> FALSE]
  /\ notified' = <<>>
  /\ Forget
  /\ UNCHANGED <<pc, arg, res, dDesired, dAccount, dAuth, dKeys, dCerts, dLive, srv,
                 open, mTargets, mMapping, mCerts, mAcct, todo>>

(* validHostname, on the names of this model *)
validHostname(n) == n \in Hosts

(* containsName *)
containsName(names, n) == \E i \in 1..Len(names) : names[i] = n

(* Store.findTargetWithAllNames: whether some loaded target has all of them *)
findTargetWithAllNames(names) ==
  \E f \in DOMAIN mTargets :
    \A i \in 1..Len(names) : containsName(mTargets[f].names, names[i])

AddNameLists == {<<"a">>, <<"b">>, <<"a", "b">>}
AddPriorities == {0}

(* Store.AddTarget: writes desired/<file> unless a loaded target has the names *)
AddTarget(names, priority) ==
  /\ pc = "idle" /\ open
  /\ Cardinality(DOMAIN dDesired) < MaxTargets
  /\ IF Len(names) = 0 THEN UNCHANGED dDesired
     ELSE IF \E i \in 1..Len(names) : ~validHostname(names[i]) THEN UNCHANGED dDesired
     ELSE IF findTargetWithAllNames(names) THEN UNCHANGED dDesired
     ELSE dDesired' = Put(dDesired, Cardinality(DOMAIN dDesired) + 1,
                          [names |-> names, priority |-> priority])
  /\ last' = [op |-> "other", loadOk |-> FALSE,
              ret |-> IF \E i \in 1..Len(names) : ~validHostname(names[i])
                      THEN "hostname" ELSE "nil"]
  /\ notified' = <<>>
  /\ Forget
  /\ UNCHANGED <<pc, arg, res, now, dAccount, dAuth, dKeys, dCerts, dLive, srv, open,
                 mTargets, mMapping, mCerts, mAcct, todo>>

(* Store.ImportCertificate: writes certs/<certID>/url unless s.certs has it *)
ImportCertificate(url) ==
  /\ pc = "idle" /\ open
  /\ LET certID == determineCertificateID(url) IN
     IF certID \in DOMAIN mCerts THEN UNCHANGED dCerts
     ELSE dCerts' = Put(dCerts, certID,
                        IF certID \in DOMAIN dCerts THEN [dCerts[certID] EXCEPT !.url = url]
                        ELSE [url |-> url, full |-> FALSE, privkey |-> FALSE])
  /\ last' = [op |-> "other", ret |-> "nil", loadOk |-> FALSE]
  /\ notified' = <<>>
  /\ Forget
  /\ UNCHANGED <<pc, arg, res, now, dDesired, dAccount, dAuth, dKeys, dLive, srv, open,
                 mTargets, mMapping, mCerts, mAcct, todo>>

----------------------------------------------------------------------------
(* Store.Reconcile, one step of its single thread at a time *)

AuthzOutcomes == {"fail", "noload", "ok"}

Issued == DOMAIN srv

(* whether some certificate of s.certs satisfies t and needs no renewing *)
Satisfied(t) ==
  \E id \in DOMAIN mCerts :
    /\ doesCertSatisfy(CertView(mCerts[id]), t)
    /\ ~certificateNeedsRenewing(CertView(mCerts[id]), now)

(* Reconcile is called *)
ReconcileBegin ==
  /\ pc = "idle" /\ open
  /\ run' = [NoRun EXCEPT !.live = dLive, !.certs = DOMAIN dCerts, !.keys = dKeys,
                          !.afterReconcile = (last.op = "Reconcile" /\ last.ret = "nil"),
                          !.satisfied = \A f \in DOMAIN mTargets : Satisfied(mTargets[f])]
  /\ notified' = <<>>
  /\ merr' = <<>>
  /\ err' = "nil"
  /\ IF haveUncachedCertificates(mCerts)
     THEN pc' = "download" /\ todo' = {}
     ELSE pc' = "targets" /\ todo' = DOMAIN mTargets
  /\ UNCHANGED <<arg, res, now, dDesired, dAccount, dAuth, dKeys, dCerts, dLive, srv,
                 open, mTargets, mMapping, mCerts, mAcct, last>>

(* Store.downloadCertificate succeeding on certificate id: the three files    *)
(* are written and the Certificate is marked cached                           *)
downloadCertificate(dc, mc, id) ==
  [dCerts |-> [dc EXCEPT ![id].full = TRUE],
   mCerts |-> [mc EXCEPT ![id].cached = TRUE]]

RECURSIVE downloadAll(_, _, _)
downloadAll(dc, mc, ids) ==
  IF ids = {} THEN [dCerts |-> dc, mCerts |-> mc]
  ELSE LET id == CHOOSE x \in ids : TRUE
           d == downloadCertificate(dc, mc, id)
       IN  downloadAll(d.dCerts, d.mCerts, ids \ {id})

(* Store.downloadUncachedCertificates: the certificates `got` are downloaded  *)
(* before one fails, or all of them are                                       *)
DownloadUncached ==
  /\ pc = "download"
  /\ LET uncached == {id \in DOMAIN mCerts : ~mCerts[id].cached} IN
     \E got \in SUBSET uncached :
       LET d == downloadAll(dCerts, mCerts, got) IN
       /\ dCerts' = d.dCerts
       /\ mCerts' = d.mCerts
       /\ run' = [run EXCEPT !.calls = @ \cup {"download"},
                             !.acmeFailed = @ \/ got # uncached]
       /\ IF got = uncached THEN pc' = "midload" /\ err' = "nil"
          ELSE pc' = "reload" /\ err' = "download"
  /\ UNCHANGED <<arg, res, now, dDesired, dAccount, dAuth, dKeys, dLive, srv, open,
                 mTargets, mMapping, mAcct, todo, merr, last, notified>>

(* the load of reconcile after the downloads, and its check *)
ReloadAfterDownload ==
  /\ pc = "midload"
  /\ \E r \in LoadResults :
       /\ ApplyLoad(r)
       /\ mCerts' = r.mCerts /\ mTargets' = r.mTargets
       /\ mMapping' = r.mMapping /\ mAcct' = r.mAcct
       /\ notified' = notified \o r.notify
       /\ IF ~r.ok THEN pc' = "reload" /\ err' = "load" /\ todo' = {}
          ELSE IF haveUncachedCertificates(r.mCerts)
          THEN pc' = "reload" /\ err' = "uncached" /\ todo' = {}
          ELSE pc' = "targets" /\ err' = "nil" /\ todo' = DOMAIN r.mTargets
  /\ UNCHANGED <<arg, res, now, dDesired, dAuth, dKeys, srv, open, merr, last, run>>

(* Store.determineNecessaryAuthorizations *)
determineNecessaryAuthorizations(t, a) ==
  SelectSeq(t.reqNames,
            LAMBDA n : ~(n \in DOMAIN a.auths /\ IsValid(a.auths[n])))

(* an obtainAuthorization that goes on when solver.Authorize fails *)
AuthorizeNeverFailed(outcome) == FALSE

(* Store.obtainAuthorization: whether solver.Authorize returned an error *)
AuthorizeFailed(outcome) == outcome = "fail"

(* the loop of requestCertificateForTarget over authsNeeded, with             *)
(* Store.obtainAuthorization for each name: az[name] is what the solver and   *)
(* LoadAuthorization do.  Writing into the Authorizations map of an account   *)
(* made by createNewAccount is a write to a nil map: a panic.                 *)
(* tried is the names obtainAuthorization was called for, in order.           *)
RECURSIVE obtainAuthorizations(_, _, _, _, _)
obtainAuthorizations(needed, az, da, a, bad) ==
  IF needed = <<>>
  THEN [status |-> "ok", dAuth |-> da, acct |-> a, bad |-> bad, tried |-> <<>>]
  ELSE LET name == Head(needed)
           expires == now + AuthzLife
       IN  IF AuthorizeFailed(az[name])
           THEN [status |-> "err", dAuth |-> da, acct |-> a, bad |-> TRUE,
                 tried |-> <<name>>]
           ELSE IF az[name] = "noload"
           THEN [obtainAuthorizations(Tail(needed), az, da, a, TRUE)
                   EXCEPT !.tried = <<name>> \o @]
           ELSE IF ~a.init
           THEN [status |-> "panic", dAuth |-> Put(da, name, expires), acct |-> a,
                 bad |-> bad, tried |-> <<name>>]
           ELSE [obtainAuthorizations(Tail(needed), az, Put(da, name, expires),
                                      [a EXCEPT !.auths = Put(@, name, expires)], bad)
                   EXCEPT !.tried = <<name>> \o @]

(* Store.requestCertificateForTarget(t).  reg, az, req and dl say which ACME  *)
(* calls succeed, chain is the length of the chain the server issues.         *)
requestCertificateForTarget(t, reg, az, req, dl, chain) ==
  LET needed == determineNecessaryAuthorizations(t, mAcct)
      au == obtainAuthorizations(needed, az, dAuth, mAcct, FALSE)
      keyID == Cardinality(dKeys) + 1
      url == Cardinality(Issued) + 1
      certID == determineCertificateID(url)
      crt == [names |-> SeqToSet(t.reqNames), notBefore |-> now,
              notAfter |-> now + Validity, chain |-> chain, key |-> keyID]
      dc == Put(dCerts, certID, [url |-> url, full |-> FALSE, privkey |-> FALSE])
      mc == Put(mCerts, certID, [url |-> url, cached |-> FALSE, key |-> FALSE])
      d == downloadCertificate(dc, mc, certID)
      none == [status |-> "err", dAuth |-> dAuth, acct |-> mAcct, dKeys |-> dKeys,
               srv |-> srv, dCerts |-> dCerts, mCerts |-> mCerts,
               calls |-> {"reg"}, bad |-> TRUE, cert |-> NoCert, tried |-> <<>>]
      authd == [none EXCEPT !.dAuth = au.dAuth, !.acct = au.acct, !.tried = au.tried,
                            !.calls = IF needed = <<>> THEN {"reg"} ELSE {"reg", "authz"}]
      keyed == [authd EXCEPT !.dKeys = dKeys \cup {keyID}, !.calls = @ \cup {"csr"}]
      asked == [keyed EXCEPT !.srv = Put(srv, url, crt), !.dCerts = dc, !.mCerts = mc,
                             !.calls = @ \cup {"download"}]
  IN  IF ~reg THEN none
      ELSE IF au.status # "ok" THEN [authd EXCEPT !.status = au.status]
      ELSE IF ~req THEN keyed
      ELSE IF ~dl THEN asked
      ELSE [asked EXCEPT !.status = "ok", !.dCerts = d.dCerts, !.mCerts = d.mCerts,
                         !.bad = au.bad, !.cert = certID]

(* the body of the loop of reconcile for target f *)
TargetStep(f) ==
  /\ pc = "targets"
  /\ f \in todo
  /\ LET t == mTargets[f] IN
     \E c \in BestResults(CertViews(mCerts), t) :
       IF c # NoCert /\ ~certificateNeedsRenewing(CertView(mCerts[c]), now)
       THEN /\ todo' = todo \ {f}
            /\ UNCHANGED <<pc, dAuth, dKeys, dCerts, srv, open, mTargets, mMapping,
                           mCerts, mAcct, merr, last, run>>
       ELSE \E reg \in BOOLEAN, req \in BOOLEAN, dl \in BOOLEAN, chain \in ChainLens :
            Cardinality(dKeys) < MaxIssue /\
            \E az \in [SeqToSet(determineNecessaryAuthorizations(t, mAcct)) -> AuthzOutcomes] :
              LET r == requestCertificateForTarget(t, reg, az, req, dl, chain)
                  h == [run EXCEPT !.calls = @ \cup r.calls,
                                   !.acmeFailed = @ \/ r.bad,
                                   !.attempted = @ \cup {f},
                                   !.renewal = IF c # NoCert THEN @ \cup {f} ELSE @,
                                   !.issued = IF r.status = "ok" THEN Put(@, f, r.cert) ELSE @]
              IN  /\ dAuth' = r.dAuth
                  /\ dKeys' = r.dKeys
                  /\ dCerts' = r.dCerts
                  /\ srv' = r.srv
                  /\ run' = h
                  /\ IF r.status = "panic"
                     THEN /\ pc' = "idle"
                          /\ open' = FALSE
                          /\ mTargets' = <<>> /\ mMapping' = <<>> /\ mCerts' = <<>>
                          /\ mAcct' = NoAcct
                          /\ todo' = todo \ {f}
                          /\ merr' = merr
                          /\ last' = [op |-> "Reconcile", ret |-> "panic", loadOk |-> FALSE]
                     ELSE /\ mCerts' = r.mCerts
                          /\ mAcct' = r.acct
                          /\ todo' = todo \ {f}
                          /\ merr' = IF r.status = "err" THEN Append(merr, f) ELSE merr
                          /\ UNCHANGED <<pc, open, mTargets, mMapping, last>>
  /\ UNCHANGED <<arg, res, now, dDesired, dAccount, dLive, err, notified>>

(* what Reconcile returns after reconcile() returned e and load() e2 *)
ReconcileResultReloadFirst(e, e2) == IF e2 = "nil" THEN e ELSE e2
ReconcileResult(e, e2) == IF e = "nil" THEN e2 ELSE e

(* the end of reconcile and the reload of Reconcile *)
ReconcileReturn ==
  /\ pc = "reload" \/ (pc = "targets" /\ todo = {})
  /\ LET e == IF pc = "reload" THEN err ELSE IF merr # <<>> THEN "merr" ELSE "nil" IN
     \E r \in LoadResults :
       /\ ApplyLoad(r)
       /\ mCerts' = r.mCerts /\ mTargets' = r.mTargets
       /\ mMapping' = r.mMapping /\ mAcct' = r.mAcct
       /\ notified' = notified \o r.notify
       /\ err' = e
       /\ last' = [op |-> "Reconcile", loadOk |-> r.ok,
                   ret |-> ReconcileResult(e, IF r.ok THEN "nil" ELSE "load")]
  /\ pc' = "idle"
  /\ todo' = {}
  /\ UNCHANGED <<arg, res, now, dDesired, dAuth, dKeys, srv, open, merr, run>>

ImportURLs == {InvalidURL}

Next ==
  \/ New
  \/ Tick
  \/ \E names \in AddNameLists, priority \in AddPriorities : AddTarget(names, priority)
  \/ \E url \in ImportURLs : ImportCertificate(url)
  \/ ReconcileBegin
  \/ DownloadUncached
  \/ ReloadAfterDownload
  \/ \E f \in todo : TargetStep(f)
  \/ ReconcileReturn

----------------------------------------------------------------------------
(* Properties of the Store *)

vars == <<pc, arg, res, now, storeVars>>

Returned == pc = "idle" /\ last.op = "Reconcile"

(* the state is the one a successful load left *)
JustLoaded ==
  \/ pc = "idle" /\ last.op \in {"New", "Reconcile"} /\ last.loadOk
  \/ pc = "targets" /\ Len(notified) = 1 /\ run.attempted = {}

SatisfyingCerts(t) ==
  {id \in DOMAIN mCerts : doesCertSatisfy(CertView(mCerts[id]), t)}

(* C3: after every successful load, for every hostname h owned by a target t  *)
(* that some certificate satisfies, live/h links to the best certificate      *)
(* satisfying t: it satisfies t, and no certificate satisfying t has a longer *)
(* chain or, with a chain of the same length and both parsed, a later         *)
(* NotAfter.                                                                  *)
C3_LiveLinksBest ==
  JustLoaded =>
    \A h \in DOMAIN mMapping :
      LET t == mTargets[mMapping[h]]
          c(id) == CertView(mCerts[id])
          preferred(x, y) ==
            \/ x.chain > y.chain
            \/ x.chain = y.chain /\ x.parses /\ y.parses /\ x.notAfter > y.notAfter
      IN  SatisfyingCerts(t) # {} =>
            /\ h \in DOMAIN dLive
            /\ dLive[h] \in SatisfyingCerts(t)
            /\ \A id \in SatisfyingCerts(t) : ~preferred(c(id), c(dLive[h]))

(* C4: a failure while requesting a certificate for one target does not keep  *)
(* the loop from the other targets: Reconcile returns, every target was       *)
(* visited, the MultiError holds one entry per failed target, and a target    *)
(* that succeeded has its certificate installed and its hostnames linked to   *)
(* a certificate that satisfies it.                                           *)
C4_ErrorIsolation ==
  (Returned /\ run.attempted # {}) =>
    /\ last.ret # "panic"
    /\ todo = {}
    /\ SeqToSet(merr) = run.attempted \ DOMAIN run.issued
    /\ Len(merr) = Cardinality(SeqToSet(merr))
    /\ err = IF merr = <<>> THEN "nil" ELSE "merr"
    /\ \A f \in DOMAIN run.issued :
         /\ dCerts[run.issued[f]].full
         /\ (last.loadOk /\ f \in DOMAIN mTargets) =>
              \A h \in DOMAIN mMapping :
                mMapping[h] = f =>
                  h \in DOMAIN dLive /\ dLive[h] \in SatisfyingCerts(mTargets[f])

(* C5: Reconcile reloads the state directory after reconcile() has returned,  *)
(* with or without an error, and returns reconcile()'s error if there is one  *)
(* and the reload's otherwise.                                                *)
C5_ReloadAndResult ==
  (Returned /\ last.ret # "panic") =>
    /\ last.ret = IF err # "nil" THEN err ELSE IF last.loadOk THEN "nil" ELSE "load"
    /\ last.loadOk <=> GoodCerts = DOMAIN dCerts
    /\ last.loadOk =>
         /\ DOMAIN mTargets = DOMAIN dDesired
         /\ \A f \in DOMAIN mTargets : mTargets[f].names = dDesired[f].names
         /\ DOMAIN mMapping = UNION {SeqToSet(dDesired[f].names) : f \in DOMAIN dDesired}
         /\ DOMAIN mCerts = DOMAIN dCerts
         /\ \A id \in DOMAIN mCerts : mCerts[id] = validateCert(id)
         /\ Len(notified) >= 1

(* reconcile() failed for one target and issued for another, and the reload   *)
(* still ran: the new certificate has its key                                 *)
C5_Witness ==
  /\ Returned /\ last.loadOk
  /\ err = "merr" /\ last.ret = "merr"
  /\ \E id \in DOMAIN mCerts : id \notin run.certs /\ mCerts[id].key

(* C6: first run.  On a state directory holding nothing but a target for      *)
(* [a], a Reconcile whose ACME calls all succeed leaves an account key, a     *)
(* certificate with cert, chain, fullchain and privkey, live/a linked to it,  *)
(* and has called Notify with [a].                                            *)
C6_FirstRunIssuance ==
  ( /\ Returned
    /\ dDesired = (1 :> [names |-> <<"a">>, priority |-> 0])
    /\ run.certs = {} /\ run.keys = {} /\ run.live = <<>>
    /\ ~run.acmeFailed )
  => /\ last.ret = "nil"
     /\ dAccount
     /\ \E id \in DOMAIN dCerts :
          /\ dCerts[id].full /\ dCerts[id].privkey
          /\ "a" \in DOMAIN dLive /\ dLive["a"] = id
     /\ \E i \in 1..Len(notified) : notified[i] = {"a"}

(* C7: a Reconcile run right after a Reconcile that returned nil and left     *)
(* every target with a satisfying certificate that needs no renewing makes no *)
(* ACME call, creates no key and no certificate, changes no live/ link and    *)
(* hands Notify no hostname.                                                  *)
C7_Idempotent ==
  (Returned /\ run.afterReconcile /\ run.satisfied) =>
    /\ run.calls = {}
    /\ dKeys = run.keys
    /\ DOMAIN dCerts = run.certs
    /\ dLive = run.live
    /\ \A i \in 1..Len(notified) : notified[i] = {}

(* C8: when Reconcile returns nil after renewing for a target whose best      *)
(* certificate had reached its renew time, every hostname of the target is    *)
(* linked to the certificate issued in this Reconcile and was handed to       *)
(* Notify.                                                                    *)
C8_RenewalRelinks ==
  (Returned /\ last.ret = "nil") =>
    \A f \in run.renewal \cap DOMAIN run.issued :
      \A h \in DOMAIN mMapping :
        mMapping[h] = f =>
          /\ h \in DOMAIN dLive
          /\ dLive[h] \notin run.certs
          /\ \E i \in 1..Len(notified) : h \in notified[i]

(* C14: round-trip load.  After any sequence of operations, a store just      *)
(* re-opened has the derived state that every further re-open yields: the     *)
(* same account, keys, certificates, targets and hostname-to-target map.      *)
C14_RoundTripLoad ==
  (pc = "idle" /\ last.op = "New" /\ last.loadOk) =>
    \A r \in LoadResults :
      /\ r.ok
      /\ r.dAccount = dAccount
      /\ DOMAIN r.mCerts = DOMAIN mCerts
      /\ r.mTargets = mTargets
      /\ r.mMapping = mMapping

(* the hostnames whose live/ link a step creates or changes *)
LinksChanged == {h \in DOMAIN dLive' : h \notin DOMAIN dLive \/ dLive'[h] # dLive[h]}

(* C9 as claimed: Notify is invoked once per Reconcile *)
C9_NotifyOncePerReconcile ==
  (Returned /\ last.ret = "nil") => Len(notified) = 1

(* C9: Notify is invoked once at the end of every linkTargets run, that is    *)
(* once per load that gets as far as linkTargets (in New, after the downloads *)
(* of reconcile, and in the reload of Reconcile: no, one or two times per     *)
(* Reconcile), with exactly the hostnames whose live/ link that run created   *)
(* or changed; no other step, a fault in the loop included, touches live/ or  *)
(* calls Notify.                                                              *)
C9_NotifyPerLinkTargets ==
  /\ [](Len(notified) <= 2)
  /\ [][ /\ pc = "midload" =>
              notified' = IF err' = "load" THEN notified
                          ELSE Append(notified, LinksChanged)
         /\ (pc \in {"reload", "targets"} /\ pc' = "idle" /\ last'.ret # "panic") =>
              notified' = IF last'.loadOk THEN Append(notified, LinksChanged)
                          ELSE notified
         /\ (pc = "idle" /\ pc' = "idle" /\ last'.op = "New") =>
              notified' = IF last'.loadOk THEN <<LinksChanged>> ELSE <<>>
         /\ (pc = "targets" /\ pc' = "idle" /\ last'.ret = "panic") =>
              notified' = notified /\ LinksChanged = {}
         /\ ~( \/ pc = "midload"
               \/ pc \in {"reload", "targets"} /\ pc' = "idle"
               \/ pc = "idle" /\ pc' = "idle" /\ last'.op = "New" ) =>
              LinksChanged = {} /\ (notified' = notified \/ notified' = <<>>)
       ]_vars

(* a Reconcile that returned nil and called Notify twice, the first time with *)
(* the hostname it linked                                                     *)
C9_Witness ==
  /\ Returned /\ last.ret = "nil"
  /\ Len(notified) = 2
  /\ notified[1] # {}

----------------------------------------------------------------------------
(* SpecDisjoin: disjoinTargets applied to loaded targets *)

SortNameLists ==
  {<<h>> : h \in Hosts} \cup {<<h, g>> : h \in Hosts, g \in Hosts}
SortPriorities == {0, 1}
SortTargets == [names : SortNameLists, priority : SortPriorities]

DisjoinInit ==
  /\ pc = "arg"
  /\ \E n \in 1..MaxSortTargets :
       \E tg \in [1..n -> SortTargets] :
         \E order \in Orders(1..n) :
           arg = [targets |-> tg, order |-> order]
  /\ res = <<>>
  /\ now = 0
  /\ StoreInit

DisjoinApply ==
  /\ pc = "arg"
  /\ pc' = "res"
  /\ res' = disjoinTargets(arg.targets, arg.order)
  /\ UNCHANGED <<arg, now, storeVars>>

(* C1: after disjoinTargets every hostname of any loaded target's satisfy.names *)
(* is in the reducedNames of exactly one target, once, and                    *)
(* hostnameTargetMapping sends it to that target.                             *)
C1_DisjointNames ==
  pc = "res" =>
    LET tg == arg.targets
        all == UNION {SeqToSet(tg[f].names) : f \in DOMAIN tg}
        owners(h) == {f \in DOMAIN tg : h \in SeqToSet(res.reduced[f])}
    IN  /\ DOMAIN res.mapping = all
        /\ DOMAIN res.reduced = DOMAIN tg
        /\ \A h \in all :
             /\ Cardinality(owners(h)) = 1
             /\ res.mapping[h] \in owners(h)
             /\ h \in SeqToSet(tg[res.mapping[h]].names)
             /\ Cardinality({i \in 1..Len(res.reduced[res.mapping[h]]) :
                               res.reduced[res.mapping[h]][i] = h}) = 1

C1_Witness ==
  /\ pc = "res"
  /\ \E f \in DOMAIN arg.targets, g \in DOMAIN arg.targets :
       /\ f # g
       /\ SeqToSet(arg.targets[f].names) \cap SeqToSet(arg.targets[g].names) # {}
       /\ res.reduced[g] # arg.targets[g].names

(* C32: of two targets neither of which is greater under targetGt, the one    *)
(* loaded first (the lower index of desired/) keeps every hostname both list, *)
(* and the hostname-to-target map is the same for every iteration order of    *)
(* s.targets.                                                                 *)
C32_TiesKeepLoadOrder ==
  pc = "res" =>
    LET tg == arg.targets IN
    /\ \A f \in DOMAIN tg, g \in DOMAIN tg :
         (f < g /\ ~targetGt(tg[f], tg[g]) /\ ~targetGt(tg[g], tg[f])) =>
           \A h \in SeqToSet(tg[f].names) \cap SeqToSet(tg[g].names) :
             res.mapping[h] # g
    /\ \A o \in Orders(DOMAIN tg) : disjoinTargets(tg, o).mapping = res.mapping

(* the targets of scenario S4 *)
S4_T1 == [names |-> <<"a", "b">>, priority |-> 1]
S4_T2 == [names |-> <<"b", "c">>, priority |-> 0]

(* C2: a hostname listed by two targets goes to a target that no other target *)
(* listing it is greater than under targetGt; T1 = {a, b} priority 1 and      *)
(* T2 = {b, c} priority 0 give T1 [a, b] and T2 [c] in either order of adding.*)
C2_GreaterTargetWins ==
  pc = "res" =>
    LET tg == arg.targets IN
    /\ \A f \in DOMAIN tg, g \in DOMAIN tg :
         \A h \in SeqToSet(tg[f].names) \cap SeqToSet(tg[g].names) :
           targetGt(tg[f], tg[g]) => res.mapping[h] # g
    /\ \A f \in DOMAIN tg, g \in DOMAIN tg :
         (DOMAIN tg = {f, g} /\ tg[f] = S4_T1 /\ tg[g] = S4_T2)
           => res.reduced[f] = <<"a", "b">> /\ res.reduced[g] = <<"c">>

C2_Witness ==
  /\ pc = "res"
  /\ DOMAIN arg.targets = {1, 2}
  /\ arg.targets[1] = S4_T2
  /\ arg.targets[2] = S4_T1
  /\ arg.order = <<1, 2>>
  /\ res.reduced[2] = <<"a", "b">>
  /\ res.reduced[1] = <<"c">>

----------------------------------------------------------------------------
(* SpecBest: the matcher applied to loaded certificates *)

MaxBestCerts == 2      \* certificates in s.certs
MaxChain == 2          \* certificates in a chain
MaxNotAfter == 2       \* distinct expiry days

BestCertValues ==
  [chain : 0..MaxChain, key : BOOLEAN, parses : BOOLEAN,
   names : {{"a"}, {"a", "b"}}, notBefore : {0}, notAfter : 1..MaxNotAfter]

BestInit ==
  /\ pc = "arg"
  /\ \E n \in 1..MaxBestCerts :
       \E cs \in [{CertID(i) : i \in 1..n} -> BestCertValues] :
         \E order \in Orders({CertID(i) : i \in 1..n}) :
           \E names \in {<<"a">>, <<"a", "b">>} :
             arg = [certs |-> cs, target |-> [names |-> names], order |-> order]
  /\ res = <<>>
  /\ now = 0
  /\ StoreInit

BestApply ==
  /\ pc = "arg"
  /\ pc' = "res"
  /\ res' = [bestCert |-> findBestCertificateSatisfying(arg.certs, arg.target, arg.order)]
  /\ UNCHANGED <<arg, now, storeVars>>

(* C35: findBestCertificateSatisfying returns the same certificate for every  *)
(* iteration order of s.certs, the error exactly when no certificate          *)
(* satisfies the target, and a certificate that no other satisfying           *)
(* certificate is better than under certBetterThan.                           *)
C35_BestIsDeterministic ==
  pc = "res" =>
    LET cs == arg.certs
        sat == {c \in DOMAIN cs : doesCertSatisfy(cs[c], arg.target)}
    IN  /\ \A o \in Orders(DOMAIN cs) :
             findBestCertificateSatisfying(cs, arg.target, o) = res.bestCert
        /\ (res.bestCert = NoCert) <=> (sat = {})
        /\ res.bestCert # NoCert =>
             \A c \in sat : ~certBetterThan(cs[c], cs[res.bestCert])

(* C10: of two parseable certificates with the same chain length that both    *)
(* satisfy the target, the one with the later NotAfter is strictly preferred: *)
(* certBetterThan(later, earlier), and findBestCertificateSatisfying returns  *)
(* the later one.                                                             *)
C10_LaterNotAfterPreferred ==
  pc = "res" =>
    \A a \in DOMAIN arg.certs, b \in DOMAIN arg.certs :
      LET ca == arg.certs[a]
          cb == arg.certs[b]
      IN  ( /\ DOMAIN arg.certs = {a, b}
            /\ ca.parses /\ cb.parses
            /\ ca.chain = cb.chain
            /\ doesCertSatisfy(ca, arg.target)
            /\ doesCertSatisfy(cb, arg.target)
            /\ ca.notAfter > cb.notAfter )
          => certBetterThan(ca, cb) /\ res.bestCert = a

----------------------------------------------------------------------------
(* SpecRenew: renewTime and certificateNeedsRenewing applied to a certificate *)

MaxRenewSteps == 12    \* days are drawn in steps of ten, up to this many steps

TenDays == ThirtyDays \div 3
TenYears == 10 * 365

RenewDays == {d * TenDays : d \in 0..MaxRenewSteps}

RenewInit ==
  /\ pc = "arg"
  /\ \E nb \in RenewDays, na \in RenewDays \cup {TenYears}, chain \in 0..1, parses \in BOOLEAN :
       /\ nb <= na
       /\ arg = [cert |-> [chain |-> chain, key |-> TRUE, parses |-> parses,
                           names |-> {"a"}, notBefore |-> nb, notAfter |-> na]]
  /\ res = <<>>
  /\ now \in RenewDays \cup {TenYears - ThirtyDays - 1, TenYears - ThirtyDays}
  /\ StoreInit

RenewApply ==
  /\ pc = "arg"
  /\ pc' = "res"
  /\ res' = [renewTime |-> renewTime(arg.cert.notBefore, arg.cert.notAfter),
             needsRenewing |-> certificateNeedsRenewing(arg.cert, now)]
  /\ UNCHANGED <<arg, now, storeVars>>

(* C11: renewTime(notBefore, notAfter) is notAfter minus the smaller of 30    *)
(* days and a third of the validity, for every notBefore <= notAfter (day 60  *)
(* for a 90-day certificate, 30 days before expiry for a 10-year one), and a  *)
(* parseable certificate needs renewing iff now >= renewTime.                 *)
C11_RenewTime ==
  pc = "res" =>
    LET nb == arg.cert.notBefore
        na == arg.cert.notAfter
        third == (na - nb) \div 3
        span == IF ThirtyDays < third THEN ThirtyDays ELSE third
    IN  /\ res.renewTime = na - span
        /\ na - nb = 3 * ThirtyDays => res.renewTime = nb + 2 * ThirtyDays
        /\ na - nb >= TenYears - MaxRenewSteps * TenDays => res.renewTime = na - ThirtyDays
        /\ (arg.cert.chain > 0 /\ arg.cert.parses) =>
             (res.needsRenewing <=> now >= na - span)

(* a 10-year certificate renewed exactly 30 days before it expires, and not   *)
(* the day before                                                              *)
C11_Witness ==
  /\ pc = "res"
  /\ arg.cert.notAfter = TenYears /\ arg.cert.notBefore = 0
  /\ arg.cert.chain > 0 /\ arg.cert.parses
  /\ now = TenYears - ThirtyDays
  /\ res.renewTime = now
  /\ res.needsRenewing

----------------------------------------------------------------------------
(* SpecSatisfy: doesCertSatisfy applied to a certificate and a loaded target *)

MaxSatisfyNames == 2   \* names in satisfy.names

SatisfyNameLists ==
  UNION {[1..n -> NameForms] : n \in 1..MaxSatisfyNames}

SatisfyInit ==
  /\ pc = "arg"
  /\ \E chain \in 0..1, key \in BOOLEAN, parses \in BOOLEAN,
        dns \in SUBSET NameForms, names \in SatisfyNameLists :
       /\ chain = 0 => ~parses
       /\ arg = [cert |-> [chain |-> chain, key |-> key, parses |-> parses,
                           names |-> dns, notBefore |-> 0, notAfter |-> Validity],
                 names |-> names]
  /\ res = <<>>
  /\ now = 0
  /\ StoreInit

(* the target file is loaded (validateTargetInner) and the certificate is     *)
(* matched against it                                                         *)
SatisfyApply ==
  /\ pc = "arg"
  /\ pc' = "res"
  /\ LET t == [names |-> normalizeNames(arg.names)] IN
     res' = [target |-> t, satisfies |-> doesCertSatisfy(arg.cert, t)]
  /\ UNCHANGED <<arg, now, storeVars>>

(* C12: a certificate satisfies a target iff it has a known private key, its  *)
(* end-entity certificate parses, and every name of satisfy.names is among    *)
(* its DNSNames, compared case-insensitively and with trailing dots stripped. *)
C12_SatisfiesIff ==
  pc = "res" =>
    ( res.satisfies <=>
        /\ arg.cert.key
        /\ arg.cert.parses
        /\ \A i \in 1..Len(arg.names) :
             \E d \in arg.cert.names : normalizeName(d) = normalizeName(arg.names[i]) )

----------------------------------------------------------------------------
(* SpecLoad: New on a state directory whose directory names need not match    *)
(* what they hold                                                             *)

MaxLoadIDs == 2        \* distinct keys and certificate URLs

LoadKeys == 1..MaxLoadIDs
LoadServer == accountURLPart("U")

(* a directory: some of the names `dirs`, each holding one of `contents` *)
Directories(dirs, contents) ==
  UNION {[d -> contents] : d \in SUBSET dirs}

LoadInit ==
  /\ pc = "arg"
  /\ \E ac \in Directories({<<LoadServer, determineKeyIDFromKey(k)>> : k \in LoadKeys}, LoadKeys),
        ks \in Directories({determineKeyIDFromKey(k) : k \in LoadKeys}, LoadKeys),
        cs \in Directories({determineCertificateID(u) : u \in LoadKeys}, LoadKeys) :
       arg = [accounts |-> ac, keys |-> ks, certs |-> cs]
  /\ res = <<>>
  /\ now = 0
  /\ StoreInit

(* loadAccounts, loadKeys and loadCerts of Store.load, as New runs them: the  *)
(* maps they build, or the error of the first directory refused               *)
LoadApply ==
  /\ pc = "arg"
  /\ pc' = "res"
  /\ LET okA == \A d \in DOMAIN arg.accounts : validateAccountID(d[1], d[2], arg.accounts[d])
         okK == \A d \in DOMAIN arg.keys : validateKeyID(d, arg.keys[d])
         okC == \A d \in DOMAIN arg.certs : validateCertID(d, arg.certs[d])
     IN  res' =
           IF okA /\ okK /\ okC
           THEN [ok |-> TRUE,
                 accounts |-> {determineAccountID(decodeAccountURLPart(d[1]), arg.accounts[d]) :
                                 d \in DOMAIN arg.accounts},
                 keys |-> {determineKeyIDFromKey(arg.keys[d]) : d \in DOMAIN arg.keys},
                 certs |-> DOMAIN arg.certs]
           ELSE [ok |-> FALSE, accounts |-> {}, keys |-> {}, certs |-> {}]
  /\ UNCHANGED <<arg, now, storeVars>>

(* C13: the load fails whenever an account, key or certificate directory is   *)
(* not named by the ID derived from what it holds; after a successful load    *)
(* the accounts, keys and certs maps are keyed by exactly the directory       *)
(* names, each the ID re-derived from the stored content.                     *)
C13_LoadRefusesIDMismatch ==
  pc = "res" =>
    LET badA == \E d \in DOMAIN arg.accounts :
                  d # <<accountURLPart("U"), <<"K", arg.accounts[d]>>>>
        badK == \E d \in DOMAIN arg.keys : d # <<"K", arg.keys[d]>>
        badC == \E d \in DOMAIN arg.certs : d # <<"H", arg.certs[d]>>
    IN  /\ (badA \/ badK \/ badC) => ~res.ok
        /\ res.ok => /\ res.accounts = DOMAIN arg.accounts
                     /\ res.keys = DOMAIN arg.keys
                     /\ res.certs = DOMAIN arg.certs

(* a directory with two accounts, two keys and two certificates, all named by *)
(* their IDs, loads                                                           *)
C13_Witness ==
  /\ pc = "res"
  /\ res.ok
  /\ Cardinality(res.accounts) = MaxLoadIDs
  /\ Cardinality(res.keys) = MaxLoadIDs
  /\ Cardinality(res.certs) = MaxLoadIDs

----------------------------------------------------------------------------
(* SpecAdd: AddTarget, once or repeatedly, on an open Store whose s.targets   *)
(* are those of its last load: the files written since are not in it          *)

AddInputs == AddNameLists \cup {<<>>, <<"a", "?">>}

AddDirectories ==
  UNION {[1..n -> [names : AddNameLists \cup {<<"b", "a">>, <<"c">>, <<"a", "c">>},
                   priority : AddPriorities]] :
           n \in 0..(MaxTargets - 1)}

AddInit ==
  /\ pc = "idle" /\ res = <<>> /\ now = 0
  /\ \E dd \in AddDirectories, names \in AddInputs, priority \in AddPriorities :
       \E k \in 0..Len(dd) :
         \E order \in Orders(1..k) :
           LET tg == loadTargetsOf(SubSeq(dd, 1, k))
               dj == disjoinTargets(tg, order)
           IN  /\ dDesired = dd
               /\ mTargets = withReducedNames(tg, dj)
               /\ mMapping = dj.mapping
               /\ arg = [names |-> names, priority |-> priority, before |-> dd]
  /\ dAccount = FALSE /\ dAuth = <<>> /\ dKeys = {}
  /\ dCerts = <<>> /\ dLive = <<>> /\ srv = <<>>
  /\ open = TRUE
  /\ mCerts = <<>> /\ mAcct = NoAcct
  /\ todo = {} /\ merr = <<>> /\ err = "nil"
  /\ last = [op |-> "none", ret |-> "nil", loadOk |-> FALSE]
  /\ notified = <<>>
  /\ run = NoRun

AddApply == AddTarget(arg.names, arg.priority)

(* AddTarget has been called *)
Added == last.op = "other"

(* C15: AddTarget returns an error and writes nothing under desired/ when     *)
(* satisfy.names is empty or holds a name that fails hostname validation.     *)
C15_AddTargetRejects ==
  (Added /\ (arg.names = <<>> \/ \E i \in 1..Len(arg.names) : arg.names[i] \notin Hosts)) =>
    /\ last.ret # "nil"
    /\ dDesired = arg.before

(* C16: AddTarget writes no file when a target under desired/ already covers  *)
(* every name given, so one AddTarget or any number of repetitions of it add  *)
(* one file if no target covered the names and none if one did.               *)
C16_AddTargetNoOp ==
  (Added /\ last.ret = "nil" /\ arg.names # <<>>) =>
    LET covered == \E f \in DOMAIN arg.before :
                     SeqToSet(arg.names) \subseteq SeqToSet(arg.before[f].names)
    IN  /\ covered => dDesired = arg.before
        /\ ~covered => /\ Len(dDesired) = Len(arg.before) + 1
                       /\ SubSeq(dDesired, 1, Len(arg.before)) = arg.before

----------------------------------------------------------------------------
(* SpecRemove: RemoveTargetHostname on an open Store.  Target files here may  *)
(* give request.names; s.targets are those of the last load.                  *)

MaxRemoveTargets == 2  \* target files under desired/

(* removeStringFromList *)
removeStringFromList(ss, x) == SelectSeq(ss, LAMBDA y : y # x)

(* Store.serializeTarget: the file written for a loaded target *)
serializeTarget(t) ==
  [names |-> t.names, reqNames |-> IF t.implicit THEN <<>> ELSE t.reqNames,
   priority |-> t.priority]

(* Store.RemoveTargetHostname *)
RemoveTargetHostname(hostname) ==
  /\ pc = "idle" /\ open
  /\ LET hit == {f \in DOMAIN mTargets : containsName(mTargets[f].names, hostname)}
         stripped(f) == [mTargets[f] EXCEPT
                           !.names = removeStringFromList(@, hostname),
                           !.reqNames = removeStringFromList(@, hostname)]
         gone == {f \in hit : stripped(f).names = <<>>}
     IN  /\ mTargets' = [f \in DOMAIN mTargets |->
                           IF f \in hit THEN stripped(f) ELSE mTargets[f]]
         /\ dDesired' = [f \in (DOMAIN dDesired \cup hit) \ gone |->
                           IF f \in hit THEN serializeTarget(stripped(f)) ELSE dDesired[f]]
  /\ last' = [op |-> "other", ret |-> "nil", loadOk |-> FALSE]
  /\ notified' = <<>>
  /\ Forget
  /\ UNCHANGED <<pc, arg, res, now, dAccount, dAuth, dKeys, dCerts, dLive, srv, open,
                 mMapping, mCerts, mAcct, todo>>

RemoveFiles ==
  [names : AddNameLists, reqNames : {<<>>, <<"a">>, <<"a", "b">>}, priority : AddPriorities]

RemoveInit ==
  /\ pc = "idle" /\ res = <<>> /\ now = 0
  /\ \E n \in 0..MaxRemoveTargets :
       \E dd \in [1..n -> RemoveFiles], hostname \in {"a", "b"}, k \in 0..n :
         \E order \in Orders(1..k) :
           LET tg == loadTargetsOf(SubSeq(dd, 1, k))
               dj == disjoinTargets(tg, order)
           IN  /\ dDesired = dd
               /\ mTargets = withReducedNames(tg, dj)
               /\ mMapping = dj.mapping
               /\ arg = [hostname |-> hostname, before |-> dd, loaded |-> k]
  /\ dAccount = FALSE /\ dAuth = <<>> /\ dKeys = {}
  /\ dCerts = <<>> /\ dLive = <<>> /\ srv = <<>>
  /\ open = TRUE
  /\ mCerts = <<>> /\ mAcct = NoAcct
  /\ todo = {} /\ merr = <<>> /\ err = "nil"
  /\ last = [op |-> "none", ret |-> "nil", loadOk |-> FALSE]
  /\ notified = <<>>
  /\ run = NoRun

RemoveApply == RemoveTargetHostname(arg.hostname)

(* C17: after RemoveTargetHostname(h) has returned nil on a Store that had    *)
(* loaded every target file, no file under desired/ lists h in satisfy.names  *)
(* or request.names, every target whose satisfy.names became empty is         *)
(* deleted, and the files that never mentioned h are unchanged.               *)
C17_RemoveTargetHostname ==
  (last.op = "other" /\ arg.loaded = Len(arg.before)) =>
    LET h == arg.hostname
        mentions(file) == h \in SeqToSet(file.names) \cup SeqToSet(file.reqNames)
    IN  /\ \A f \in DOMAIN dDesired : ~mentions(dDesired[f])
        /\ \A f \in DOMAIN arg.before :
             /\ SeqToSet(arg.before[f].names) = {h} => f \notin DOMAIN dDesired
             /\ ~mentions(arg.before[f]) =>
                  f \in DOMAIN dDesired /\ dDesired[f] = arg.before[f]

----------------------------------------------------------------------------
(* SpecImport: ImportKey, ImportCertificate and ImportAccountKey on an open   *)
(* Store.  Here keys/ and accounts/ are kept file by file: dKeys and dAccount *)
(* map a directory name to the privkey it holds, a key pk in some PEM         *)
(* encoding, and mAcct is s.accounts.                                         *)

MaxImportKeys == 2     \* distinct private keys and certificate URLs

ImportKeys == 1..MaxImportKeys
ImportForms == {"PKCS1", "PKCS8"}
ImportProvider == "U"

(* a key import that never finds the key installed *)
keyNeverInstalled(keyID) == FALSE

(* ImportKey: whether keys/<keyID>/privkey opens *)
keyInstalled(keyID) == keyID \in DOMAIN dKeys

(* Store.saveKey: the privkey file written for pk *)
saveKey(pk) == [pk |-> pk, form |-> "PKCS1"]

(* Store.ImportKey of the key pk, given in the encoding form *)
ImportKey(pk, form) ==
  /\ pc = "idle" /\ open
  /\ LET keyID == determineKeyIDFromKey(pk) IN
     /\ IF keyInstalled(keyID) THEN UNCHANGED dKeys
        ELSE dKeys' = Put(dKeys, keyID, [pk |-> pk, form |-> form])
     /\ res' = [op |-> "ImportKey", id |-> keyID, form |-> form,
                existed |-> keyID \in DOMAIN dKeys]
  /\ last' = [op |-> "other", ret |-> "nil", loadOk |-> FALSE]
  /\ notified' = <<>>
  /\ Forget
  /\ UNCHANGED <<pc, arg, now, dDesired, dAccount, dAuth, dCerts, dLive, srv, open,
                 mTargets, mMapping, mCerts, mAcct, todo>>

(* Store.ImportAccountKey *)
ImportAccountKey(providerURL, pk) ==
  /\ pc = "idle" /\ open
  /\ LET accountID == determineAccountID(providerURL, pk) IN
     /\ IF accountID \in DOMAIN mAcct THEN UNCHANGED dAccount
        ELSE dAccount' = Put(dAccount, accountID, saveKey(pk))
     /\ res' = [op |-> "ImportAccountKey", id |-> accountID, form |-> saveKey(pk).form,
                existed |-> accountID \in DOMAIN dAccount]
  /\ last' = [op |-> "other", ret |-> "nil", loadOk |-> FALSE]
  /\ notified' = <<>>
  /\ Forget
  /\ UNCHANGED <<pc, arg, now, dDesired, dKeys, dAuth, dCerts, dLive, srv, open,
                 mTargets, mMapping, mCerts, mAcct, todo>>

(* a Store just opened on a state directory with some keys, accounts and      *)
(* certificate URLs, each under its own ID                                    *)
ImportInit ==
  /\ pc = "idle" /\ arg = <<>> /\ now = 0
  /\ res = [op |-> "none", id |-> <<>>, form |-> "", existed |-> FALSE]
  /\ \E ks \in Directories(ImportKeys, ImportForms),
        as \in Directories(ImportKeys, ImportForms),
        cs \in SUBSET ImportKeys :
       /\ dKeys = [d \in {determineKeyIDFromKey(k) : k \in DOMAIN ks} |->
                     [pk |-> d[2], form |-> ks[d[2]]]]
       /\ dAccount = [d \in {determineAccountID(ImportProvider, k) : k \in DOMAIN as} |->
                        [pk |-> d[2][2], form |-> as[d[2][2]]]]
       /\ dCerts = [d \in {determineCertificateID(u) : u \in cs} |->
                      [url |-> CHOOSE u \in cs : determineCertificateID(u) = d,
                       full |-> FALSE, privkey |-> FALSE]]
  /\ mAcct = [d \in DOMAIN dAccount |-> dAccount[d].pk]
  /\ mCerts = [d \in DOMAIN dCerts |->
                 [url |-> dCerts[d].url, cached |-> FALSE, key |-> FALSE]]
  /\ dDesired = <<>> /\ dAuth = <<>> /\ dLive = <<>> /\ srv = <<>>
  /\ open = TRUE
  /\ mTargets = <<>> /\ mMapping = <<>>
  /\ todo = {} /\ merr = <<>> /\ err = "nil"
  /\ last = [op |-> "none", ret |-> "nil", loadOk |-> FALSE]
  /\ notified = <<>>
  /\ run = NoRun

ImportNext ==
  \/ \E pk \in ImportKeys, form \in ImportForms : ImportKey(pk, form)
  \/ \E url \in ImportKeys : ImportCertificate(url)
  \/ \E pk \in ImportKeys : ImportAccountKey(ImportProvider, pk)

(* C18: an import returns nil and leaves every file that exists in keys/,     *)
(* accounts/ and certs/ as it is, so an import whose derived ID is already    *)
(* in the store changes no file, and a second import of the same item adds    *)
(* nothing to the first.                                                      *)
C18_ImportNoOp ==
  [][last'.op = "other" =>
       /\ last'.ret = "nil"
       /\ \A d \in DOMAIN dKeys : d \in DOMAIN dKeys' /\ dKeys'[d] = dKeys[d]
       /\ \A d \in DOMAIN dAccount : d \in DOMAIN dAccount' /\ dAccount'[d] = dAccount[d]
       /\ \A d \in DOMAIN dCerts : d \in DOMAIN dCerts' /\ dCerts'[d] = dCerts[d]
       /\ Cardinality(DOMAIN dKeys') + Cardinality(DOMAIN dAccount')
            + Cardinality(DOMAIN dCerts')
          <= Cardinality(DOMAIN dKeys) + Cardinality(DOMAIN dAccount)
               + Cardinality(DOMAIN dCerts) + 1]_vars

(* ImportKey found the key installed in another encoding than the one given   *)
(* and kept the installed file                                                *)
C18_Witness ==
  /\ last.op = "other"
  /\ res.op = "ImportKey"
  /\ res.existed
  /\ dKeys[res.id].form # res.form

----------------------------------------------------------------------------
(* SpecResponder: the http-01 responder of package responder.  Here arg is    *)
(* rcfg, the Config the responder was built from, with the webroots the       *)
(* process can write; res is the httpResponder with what it acts on: its      *)
(* servers, the token files in the webroots and the hook invocations.  pc is  *)
(* the position of the caller's thread; the servers' handlers run beside it.  *)

MaxCalls == 2          \* calls of Start and Stop by the responder's user

StandardWebrootPath == "/var/run/acme/acme-challenge"

(* a Go slice or map that may be nil *)
Nil == [nil |-> TRUE, of |-> {}]
NonNil(x) == [nil |-> FALSE, of |-> x]

(* parseListenAddrs: the listen addresses of http-ports, nil when http-ports  *)
(* is not configured                                                          *)
parseListenAddrs(addrs) ==
  IF addrs.nil THEN Nil
  ELSE NonNil(UNION {{<<"[::1]", n>>, <<"127.0.0.1", n>>} : n \in addrs.of})

(* the addresses startActual listens on when http-ports is not configured *)
DefaultAddrs == {"[::1]", "127.0.0.1"} \X {80, 402, 4402}

(* startActual: the addresses it calls startListener for *)
listenAddrs(ports) ==
  IF parseListenAddrs(ports).nil THEN DefaultAddrs ELSE parseListenAddrs(ports).of

(* httpResponder.getWebroots *)
getWebroots(rcfg) == {p \in SeqToSet(rcfg.WebPaths) : p # ""} \cup {StandardWebrootPath}

(* a Start that returns the self-test's error without stopping *)
afterSelfTestNoStop(passed) == "idle"

(* httpResponder.Start: where it goes on after selfTest *)
afterSelfTest(passed) == IF passed THEN "idle" ELSE "stop"

ResponderConfigs ==
  [Hostname : {"", "h"},
   WebPaths : {<<>>, <<"/w">>},
   HTTPPorts : {Nil, NonNil({}), NonNil({80})},
   StartHookFunc : BOOLEAN, StopHookFunc : BOOLEAN,
   writable : SUBSET {"/w", StandardWebrootPath}]

(* newHTTP *)
newHTTP ==
  [stopFuncs |-> {}, requestDetectedChan |-> 0, notifySupported |-> TRUE,
   servers |-> [a \in DefaultAddrs |-> "none"], files |-> {},
   startHooks |-> 0, stopHooks |-> 0,
   running |-> {}, caller |-> "none", ret |-> "none",
   started |-> FALSE, calls |-> 0, hooksBefore |-> 0, observed |-> FALSE,
   failed |-> {}, tested |-> "none"]

ResponderInit ==
  /\ pc = "idle"
  /\ arg \in ResponderConfigs
  /\ res = newHTTP
  /\ now = 0
  /\ StoreInit

(* the user calls Start *)
Start ==
  /\ pc = "idle" /\ res.calls < MaxCalls
  /\ pc' = "startActual"
  /\ res' = [res EXCEPT !.caller = "Start", !.ret = "none", !.calls = @ + 1,
                        !.hooksBefore = res.stopHooks, !.observed = FALSE,
                        !.failed = {}, !.tested = "none"]
  /\ UNCHANGED <<arg, now, storeVars>>

(* httpResponder.startListener for every address of `addrs`: net.Listen      *)
(* succeeds for those of `listens`, whose servers are started and whose       *)
(* stop-funcs are kept                                                        *)
startListener(r, addrs, listens) ==
  [r EXCEPT !.servers = [a \in DOMAIN @ |-> IF a \in listens THEN "serving" ELSE @[a]],
            !.stopFuncs = @ \cup listens]

(* a startActual that returns an error when something in it failed *)
startActualStrict(failed) == IF failed = {} THEN "nil" ELSE "error"

(* what httpResponder.startActual returns when the steps `failed` failed *)
startActualReturns(failed) == "nil"

(* httpResponder.startActual: the listeners, webrootWriteChallenge and the    *)
(* start hook, each of which can fail; Start returns its error, if any        *)
startActual ==
  /\ pc = "startActual"
  /\ \E listens \in SUBSET {a \in listenAddrs(arg.HTTPPorts) : res.servers[a] # "serving"} :
     \E hookErr \in {b \in BOOLEAN : b => arg.StartHookFunc} :
       LET failed == (IF listens # listenAddrs(arg.HTTPPorts) THEN {"bind"} ELSE {})
                     \cup (IF getWebroots(arg) \subseteq arg.writable THEN {} ELSE {"write"})
                     \cup (IF hookErr THEN {"hook"} ELSE {})
           ret == startActualReturns(failed)
       IN  /\ pc' = IF ret = "nil" THEN "selfTest" ELSE "idle"
           /\ res' = [startListener(res, listenAddrs(arg.HTTPPorts), listens) EXCEPT
                        !.files = @ \cup (getWebroots(arg) \cap arg.writable),
                        !.startHooks = IF arg.StartHookFunc THEN @ + 1 ELSE @,
                        !.failed = failed,
                        !.ret = IF ret = "nil" THEN @ ELSE ret]
  /\ UNCHANGED <<arg, now, storeVars>>

(* httpResponder.handle and notify, on a request to one of the servers *)
handle ==
  /\ \E a \in DefaultAddrs : res.servers[a] = "serving"
  /\ res.requestDetectedChan = 0
  /\ res' = [res EXCEPT !.requestDetectedChan = 1]
  /\ UNCHANGED <<pc, arg, now, storeVars>>

(* httpResponder.selfTest and what Start does with its result *)
selfTest ==
  /\ pc = "selfTest"
  /\ \E passed \in {b \in BOOLEAN : arg.Hostname = "" => b} :
       /\ pc' = afterSelfTest(passed)
       /\ res' =
            IF ~passed THEN [res EXCEPT !.running = res.stopFuncs, !.ret = "error",
                                        !.tested = "failed"]
            ELSE IF arg.Hostname = ""
            THEN [res EXCEPT !.ret = "nil", !.started = TRUE, !.tested = "skipped"]
            ELSE [res EXCEPT !.ret = "nil", !.started = TRUE, !.tested = "passed",
                             !.notifySupported = @ /\ res.requestDetectedChan = 1,
                             !.observed = res.requestDetectedChan = 1,
                             !.requestDetectedChan = 0]
  /\ UNCHANGED <<arg, now, storeVars>>

(* a Stop that goes on while stop-funcs are still running *)
wgNoWait(running) == TRUE

(* wg.Wait() of Stop: every goroutine started for a stop-func has finished *)
wgWait(running) == running = {}

(* the user calls Stop: every stop-func gets its goroutine *)
Stop ==
  /\ pc = "idle" /\ res.calls < MaxCalls
  /\ pc' = "stop"
  /\ res' = [res EXCEPT !.running = res.stopFuncs, !.caller = "Stop", !.ret = "none",
                        !.calls = @ + 1, !.hooksBefore = res.stopHooks]
  /\ UNCHANGED <<arg, now, storeVars>>

(* a stop-func: svr.Stop and the wait for StopChan *)
stopFunc(addr) ==
  /\ pc = "stop" /\ addr \in res.running
  /\ res' = [res EXCEPT !.running = @ \ {addr}, !.servers[addr] = "stopped"]
  /\ UNCHANGED <<pc, arg, now, storeVars>>

(* the rest of Stop after wg.Wait: webrootRemoveChallenge and the stop hook;  *)
(* a Start that called it returns the self-test's error                       *)
webrootRemoveChallenge ==
  /\ pc = "stop" /\ wgWait(res.running)
  /\ pc' = "idle"
  /\ res' = [res EXCEPT !.stopFuncs = {},
                        !.files = @ \ getWebroots(arg),
                        !.stopHooks = IF arg.StopHookFunc THEN @ + 1 ELSE @,
                        !.ret = IF res.caller = "Start" THEN "error" ELSE "nil",
                        !.started = FALSE]
  /\ UNCHANGED <<arg, now, storeVars>>

ResponderNext ==
  \/ Start
  \/ startActual
  \/ handle
  \/ selfTest
  \/ Stop
  \/ \E addr \in DefaultAddrs : stopFunc(addr)
  \/ webrootRemoveChallenge

(* C19: when Start has returned the error of a failed self-test, no server of *)
(* the responder is serving and none has a stop-func left, the token file is  *)
(* in none of its webroots, the standard one included, and the stop hook, if  *)
(* one is configured, has been invoked once by this Start.                    *)
C19_SelfTestFailureStops ==
  (pc = "idle" /\ res.caller = "Start" /\ res.ret = "error") =>
    /\ \A a \in DefaultAddrs : res.servers[a] # "serving"
    /\ res.stopFuncs = {}
    /\ res.files \cap getWebroots(arg) = {}
    /\ arg.StopHookFunc => res.stopHooks = res.hooksBefore + 1

(* a Start whose self-test failed after it had started a server, written the  *)
(* token file to a configured webroot and the standard one, with a stop hook  *)
C19_Witness ==
  /\ pc = "idle" /\ res.caller = "Start" /\ res.ret = "error"
  /\ \E a \in DefaultAddrs : res.servers[a] = "stopped"
  /\ arg.writable = {"/w", StandardWebrootPath}
  /\ arg.WebPaths = <<"/w">>
  /\ arg.StopHookFunc
  /\ res.calls = 1

(* C29: the step of Stop that removes the token files, invokes the stop hook  *)
(* and returns is taken only when the server of every stop-func has stopped,  *)
(* and it leaves the stop-func list empty and no server serving.              *)
C29_StopWaitsForAll ==
  [][(/\ pc = "stop"
      /\ \/ pc' = "idle"
         \/ res'.files # res.files
         \/ res'.stopHooks # res.stopHooks)
     => /\ \A a \in res.stopFuncs : res.servers[a] = "stopped"
        /\ res'.stopFuncs = {}
        /\ \A a \in DefaultAddrs : res'.servers[a] # "serving"]_vars

(* a Stop called by the user has returned after stopping two servers, removing *)
(* a token file and invoking the stop hook                                    *)
C29_Witness ==
  /\ pc = "idle" /\ res.caller = "Stop" /\ res.ret = "nil"
  /\ res.stopFuncs = {}
  /\ Cardinality({a \in DefaultAddrs : res.servers[a] = "stopped"}) >= 2
  /\ res.stopHooks = res.hooksBefore + 1
  /\ res.files = {} /\ getWebroots(arg) \cap arg.writable # {}

(* C33: Start returns an error exactly when a hostname was provided and the   *)
(* self-test failed, whatever failed to bind, to be written or in the start   *)
(* hook; with no hostname the self-test is skipped and Start returns nil.     *)
C33_StartFailsOnlyOnSelfTest ==
  (pc = "idle" /\ res.caller = "Start") =>
    /\ res.ret \in {"nil", "error"}
    /\ (res.ret = "error") <=> (arg.Hostname # "" /\ res.tested = "failed")
    /\ arg.Hostname = "" => (res.tested = "skipped" /\ res.ret = "nil")

(* a Start without hostname has returned nil although no address was bound,   *)
(* a webroot file could not be written and the start hook failed              *)
C33_Witness ==
  /\ pc = "idle" /\ res.caller = "Start" /\ res.ret = "nil"
  /\ arg.Hostname = ""
  /\ res.failed = {"bind", "write", "hook"}
  /\ \A a \in DefaultAddrs : res.servers[a] # "serving"

(* C20: a Stop called while no successful Start is unmatched, either before   *)
(* any Start or after a Stop already ran (Start's own after a failed          *)
(* self-test included), changes no server and no webroot file and does not    *)
(* invoke the stop hook.                                                      *)
C20_StopIdempotent ==
  [][(pc = "stop" /\ pc' = "idle" /\ res.caller = "Stop" /\ ~res.started) =>
       /\ res'.servers = res.servers
       /\ res'.files = res.files
       /\ res'.stopHooks = res.stopHooks]_vars

(* httpResponder.RequestDetectedChan *)
RequestDetectedChan == IF ~res.notifySupported THEN "nil" ELSE "requestDetectedChan"

(* C21: after Start has returned nil, RequestDetectedChan() returns the       *)
(* channel if the probe of this Start's self-test observed a send on it, and  *)
(* nil otherwise.                                                             *)
C21_ChanIffProbeObserved ==
  (pc = "idle" /\ res.caller = "Start" /\ res.ret = "nil") =>
    (RequestDetectedChan = "requestDetectedChan" <=> res.observed)

----------------------------------------------------------------------------
(* SpecRegistry: the responder registry of package responder.  Here res holds *)
(* responderTypes, the calls of RegisterResponder so far and what the last    *)
(* New returned.                                                              *)

MaxRegistrations == 2  \* calls of RegisterResponder after the package's init

ResponderTypeNames == {"http-01", "proofOfPossession", "x"}
ResponderFactories == {"newHTTP", "f", "g"}

(* a RegisterResponder that keeps an earlier registration of the type *)
registerIfAbsent(types, typeName, createFunc) ==
  IF typeName \in DOMAIN types THEN types ELSE Put(types, typeName, createFunc)

(* RegisterResponder: responderTypes[typeName] = createFunc *)
registerResponder(types, typeName, createFunc) == Put(types, typeName, createFunc)

(* responderTypes after the init of the http-01 responder *)
RegistryInit ==
  /\ pc = "idle" /\ arg = <<>> /\ now = 0
  /\ res = [responderTypes |-> registerResponder(<<>>, "http-01", "newHTTP"),
            registered |-> << <<"http-01", "newHTTP">> >>,
            rcfg |-> "", responder |-> "nil", err |-> "nil"]
  /\ StoreInit

RegisterResponder(typeName, createFunc) ==
  /\ Len(res.registered) < MaxRegistrations + 1
  /\ res' = [res EXCEPT
               !.responderTypes = registerResponder(@, typeName, createFunc),
               !.registered = Append(@, <<typeName, createFunc>>),
               !.rcfg = "", !.responder = "nil", !.err = "nil"]
  /\ UNCHANGED <<pc, arg, now, storeVars>>

(* responder.New: what the factory returns for rcfg is written <<f, rcfg>> *)
NewResponder(rcfgType) ==
  /\ res' = IF rcfgType \notin DOMAIN res.responderTypes
            THEN [res EXCEPT !.rcfg = rcfgType, !.responder = "nil",
                             !.err = "challenge type not supported"]
            ELSE [res EXCEPT !.rcfg = rcfgType,
                             !.responder = <<res.responderTypes[rcfgType], rcfgType>>,
                             !.err = "nil"]
  /\ UNCHANGED <<pc, arg, now, storeVars>>

RegistryNext ==
  \/ \E t \in ResponderTypeNames, f \in ResponderFactories : RegisterResponder(t, f)
  \/ \E t \in ResponderTypeNames : NewResponder(t)

(* C22: New returns 'challenge type not supported' and no responder when its  *)
(* type was never registered, and otherwise what the factory of the latest    *)
(* registration of that type returns.                                         *)
C22_NewUsesLatestRegistration ==
  res.rcfg # "" =>
    LET regs == {i \in 1..Len(res.registered) : res.registered[i][1] = res.rcfg}
        latest == CHOOSE i \in regs : \A j \in regs : j <= i
    IN  IF regs = {}
        THEN res.responder = "nil" /\ res.err = "challenge type not supported"
        ELSE res.responder = <<res.registered[latest][2], res.rcfg>> /\ res.err = "nil"

(* New for a type registered twice, with different factories *)
C22_Witness ==
  /\ res.rcfg # ""
  /\ \E i, j \in 1..Len(res.registered) :
       /\ i < j
       /\ res.registered[i][1] = res.rcfg /\ res.registered[j][1] = res.rcfg
       /\ res.registered[i][2] # res.registered[j][2]
  /\ res.err = "nil"

----------------------------------------------------------------------------
(* SpecAccounts: the accounts/ directory under New, the load of Reconcile,    *)
(* SetDefaultProvider and ImportAccountKey, with targets of several           *)
(* providers.  dAccount and mAcct are as in SpecImport; a target file has a   *)
(* request.provider; arg holds conf/target (its request.provider, or "none"   *)
(* when there is no file) and s.defaultTarget ("nil" before the first load);  *)
(* res tells what the last operation did.                                     *)

MaxAccountTargets == 2 \* target files under desired/

DefaultDirectoryURL == "D"
BadProviderURL == "http://bad"
TargetProviders == {"", "U", BadProviderURL}

(* acmeapi.ValidURL on a provider string *)
validProviderURL(p) == p # BadProviderURL

(* an Account that matches no provider URL *)
MatchesNoURL(baseURL, p) == FALSE

(* Account.MatchesURL *)
MatchesURL(baseURL, p) == p = baseURL

(* createKey: a key no account has yet *)
createKey(accounts) == 100 + Cardinality(DOMAIN accounts)

(* a getAccountByProviderString that never looks at the default target *)
providerIgnoringDefault(p, dflt) == p

(* getAccountByProviderString: an empty provider string stands for the        *)
(* default target's request.provider                                          *)
providerOrDefault(p, dflt) == IF p = "" /\ dflt # "nil" THEN dflt ELSE p

(* Store.getAccountByProviderString(p) with s.accounts = accounts and         *)
(* s.defaultTarget = dflt: the error, or s.accounts afterwards with the ID of *)
(* the account createNewAccount made, if it made one                          *)
accountByProviderString(p, accounts, dflt) ==
  LET p1 == providerOrDefault(p, dflt)
      p2 == IF p1 = "" THEN DefaultDirectoryURL ELSE p1
      pk == createKey(accounts)
      id == determineAccountID(p2, pk)
  IN  IF ~validProviderURL(p2) THEN [err |-> TRUE, accounts |-> accounts, created |-> {}]
      ELSE IF \E a \in DOMAIN accounts : MatchesURL(decodeAccountURLPart(a[1]), p2)
      THEN [err |-> FALSE, accounts |-> accounts, created |-> {}]
      ELSE [err |-> FALSE, accounts |-> Put(accounts, id, pk), created |-> {id}]

(* validateTarget for the files ps of desired/, in order, up to the first     *)
(* error                                                                      *)
RECURSIVE validateTargets(_, _, _)
validateTargets(ps, accounts, dflt) ==
  IF ps = <<>> THEN [err |-> FALSE, accounts |-> accounts, created |-> {}]
  ELSE LET r == accountByProviderString(Head(ps), accounts, dflt) IN
       IF r.err THEN r
       ELSE LET rest == validateTargets(Tail(ps), r.accounts, dflt) IN
            [rest EXCEPT !.created = @ \cup r.created]

(* loadAccounts and loadTargets: conf/target first, whose error only empties  *)
(* the default target, then desired/                                          *)
loadAccountsAndTargets(oldDefault) ==
  LET loaded == [a \in DOMAIN dAccount |-> dAccount[a].pk]
      dt == IF arg.conf = "none" THEN [err |-> TRUE, accounts |-> loaded, created |-> {}]
            ELSE accountByProviderString(arg.conf, loaded, oldDefault)
      dflt == IF dt.err THEN "" ELSE arg.conf
      r == validateTargets([i \in 1..Len(dDesired) |-> dDesired[i].provider],
                           dt.accounts, dflt)
  IN  [err |-> r.err, accounts |-> r.accounts, created |-> dt.created \cup r.created,
       defaultTarget |-> dflt]

(* the providers the load can ask an account for *)
referencedProviders(oldDefault) ==
  {IF q = "" THEN DefaultDirectoryURL ELSE q :
     q \in {arg.conf} \cup {dDesired[i].provider : i \in 1..Len(dDesired)}}

(* Store.load as New and Reconcile run it, for accounts/ *)
loadStore(oldDefault, op) ==
  /\ pc = "idle"
  /\ LET r == loadAccountsAndTargets(oldDefault) IN
     /\ dAccount' = [a \in DOMAIN r.accounts |->
                       IF a \in DOMAIN dAccount THEN dAccount[a] ELSE saveKey(r.accounts[a])]
     /\ mAcct' = r.accounts
     /\ arg' = [arg EXCEPT !.defaultTarget = IF r.err THEN @ ELSE r.defaultTarget]
     /\ open' = IF op = "New" THEN ~r.err ELSE open
     /\ res' = [op |-> "load", created |-> r.created,
                referenced |-> referencedProviders(oldDefault)]
     /\ last' = [op |-> op, ret |-> IF r.err THEN "error" ELSE "nil", loadOk |-> ~r.err]
  /\ notified' = <<>>
  /\ Forget
  /\ UNCHANGED <<pc, now, dDesired, dAuth, dKeys, dCerts, dLive, srv,
                 mTargets, mMapping, mCerts, todo>>

(* storage.New: a new Store, its defaultTarget nil until loadTargets *)
AccountsNew == loadStore("nil", "New")

(* the load Store.Reconcile starts with *)
AccountsReconcile == open /\ loadStore(arg.defaultTarget, "Reconcile")

(* Store.SetDefaultProvider *)
SetDefaultProvider(providerURL) ==
  /\ pc = "idle" /\ open
  /\ IF ~validProviderURL(providerURL)
     THEN /\ UNCHANGED arg
          /\ last' = [op |-> "other", ret |-> "error", loadOk |-> FALSE]
     ELSE /\ arg' = [conf |-> providerURL, defaultTarget |-> providerURL]
          /\ last' = [op |-> "other", ret |-> "nil", loadOk |-> FALSE]
  /\ res' = [op |-> "SetDefaultProvider", created |-> {}, referenced |-> {},
             url |-> providerURL]
  /\ notified' = <<>>
  /\ Forget
  /\ UNCHANGED <<pc, now, dDesired, dAccount, dAuth, dKeys, dCerts, dLive, srv, open,
                 mTargets, mMapping, mCerts, mAcct, todo>>

AccountsInit ==
  /\ pc = "idle" /\ now = 0
  /\ arg = [conf |-> "none", defaultTarget |-> "nil"]
  /\ res = [op |-> "none", created |-> {}, referenced |-> {}]
  /\ \E n \in 0..MaxAccountTargets :
       dDesired \in [1..n -> [names : {<<"a">>}, priority : {0}, provider : TargetProviders]]
  /\ dAccount = <<>> /\ dAuth = <<>> /\ dKeys = {}
  /\ dCerts = <<>> /\ dLive = <<>> /\ srv = <<>>
  /\ open = FALSE
  /\ mTargets = <<>> /\ mMapping = <<>> /\ mCerts = <<>> /\ mAcct = <<>>
  /\ todo = {} /\ merr = <<>> /\ err = "nil"
  /\ last = [op |-> "none", ret |-> "nil", loadOk |-> FALSE]
  /\ notified = <<>>
  /\ run = NoRun

AccountsNext ==
  \/ AccountsNew
  \/ AccountsReconcile
  \/ \E providerURL \in {"U", "V", BadProviderURL} : SetDefaultProvider(providerURL)
  \/ \E providerURL \in {"U", DefaultDirectoryURL} : ImportAccountKey(providerURL, 1)

(* C23: no step removes an account directory or changes its private key, and  *)
(* every account a load creates is for a provider URL that conf/target or a   *)
(* target refers to and that no account on disk had before the load.          *)
C23_AccountsOnlyGrow ==
  [][/\ \A a \in DOMAIN dAccount : a \in DOMAIN dAccount' /\ dAccount'[a] = dAccount[a]
     /\ res'.op = "load" =>
          \A a \in res'.created :
            /\ a \notin DOMAIN dAccount /\ a \in DOMAIN dAccount'
            /\ decodeAccountURLPart(a[1]) \in res'.referenced
            /\ \A b \in DOMAIN dAccount : b[1] # a[1]
     /\ res'.op # "load" /\ res'.op # "ImportAccountKey" =>
          DOMAIN dAccount' = DOMAIN dAccount]_vars

(* a load that made no account, each provider referred to having one on disk, *)
(* one of them made by an earlier load                                        *)
C23_Witness ==
  /\ res.op = "load" /\ res.created = {}
  /\ last.loadOk
  /\ Len(dDesired) = MaxAccountTargets
  /\ \E a \in DOMAIN dAccount : dAccount[a].pk >= 100
  /\ \A q \in res.referenced \ {"none"} :
       \E a \in DOMAIN dAccount : decodeAccountURLPart(a[1]) = q

----------------------------------------------------------------------------
(* SpecDownload: downloadUncachedCertificates and downloadCertificate, file   *)
(* by file.  Here arg gives the uncached certificates of s.certs and the      *)
(* number of ExtraCertificates the server has for each; res holds what is     *)
(* left of the loop, the certificate being downloaded, the files visible in   *)
(* each certs/<certID> with the number of PEM blocks they hold, and the       *)
(* writers open on temporary files.  pc is the position in the loop.          *)

MaxDownloadCerts == 2  \* uncached certificates
MaxExtra == 2          \* ExtraCertificates of a certificate

BodyFiles == {"cert", "chain", "fullchain"}

(* fdb Writer.Close: the temporary file is renamed into place *)
WriterClose(r, name) ==
  [r EXCEPT !.dirs[r.cur] = Put(@, name, r.tmp[name]),
            !.tmp = [w \in DOMAIN r.tmp \ {name} |-> r.tmp[w]]]

(* the deferred CloseAbort of every writer still open: the temporary files    *)
(* are removed                                                                *)
WriterCloseAbort(r) == [r EXCEPT !.tmp = <<>>]

DownloadInit ==
  /\ pc = "loop" /\ now = 0
  /\ \E n \in 1..MaxDownloadCerts :
     \E extra \in [1..n -> 0..MaxExtra] :
       /\ arg = [certs |-> 1..n, extra |-> extra]
       /\ res = [rest |-> 1..n, cur |-> 0, dirs |-> [c \in 1..n |-> <<>>],
                 tmp |-> <<>>, extras |-> 0, cached |-> {}, ret |-> "none"]
  /\ StoreInit

(* downloadUncachedCertificates: the next certificate of s.certs, or the end  *)
(* of the loop                                                                *)
downloadNext ==
  /\ pc = "loop"
  /\ IF res.rest = {}
     THEN pc' = "done" /\ res' = [res EXCEPT !.cur = 0, !.ret = "nil"]
     ELSE \E c \in res.rest :
            /\ pc' = "wait"
            /\ res' = [res EXCEPT !.rest = @ \ {c}, !.cur = c, !.extras = 0]
  /\ UNCHANGED <<arg, now, storeVars>>

(* an error exit of downloadCertificate, which ends the loop too *)
downloadFails ==
  /\ pc \in {"wait", "createCert", "createChain", "createFullchain", "encode", "encodeExtra"}
  /\ pc' = "done"
  /\ res' = [WriterCloseAbort(res) EXCEPT !.ret = "error"]
  /\ UNCHANGED <<arg, now, storeVars>>

(* cl.WaitForCertificate returns a certificate *)
WaitForCertificate ==
  /\ pc = "wait"
  /\ pc' = "createCert"
  /\ UNCHANGED <<arg, res, now, storeVars>>

(* col.Create of cert, chain and fullchain, one after the other *)
CreateWriter ==
  /\ pc \in {"createCert", "createChain", "createFullchain"}
  /\ LET name == CASE pc = "createCert" -> "cert" [] pc = "createChain" -> "chain"
                   [] OTHER -> "fullchain"
     IN  res' = [res EXCEPT !.tmp = Put(@, name, 0)]
  /\ pc' = CASE pc = "createCert" -> "createChain" [] pc = "createChain" -> "createFullchain"
             [] OTHER -> "encode"
  /\ UNCHANGED <<arg, now, storeVars>>

(* pem.Encode of the certificate into cert and fullchain *)
EncodeCertificate ==
  /\ pc = "encode"
  /\ pc' = "encodeExtra"
  /\ res' = [res EXCEPT !.tmp["cert"] = @ + 1, !.tmp["fullchain"] = @ + 1]
  /\ UNCHANGED <<arg, now, storeVars>>

(* pem.Encode of the next of the ExtraCertificates into chain and fullchain,  *)
(* or the end of that loop                                                    *)
EncodeExtraCertificate ==
  /\ pc = "encodeExtra"
  /\ IF res.extras < arg.extra[res.cur]
     THEN /\ pc' = "encodeExtra"
          /\ res' = [res EXCEPT !.tmp["chain"] = @ + 1, !.tmp["fullchain"] = @ + 1,
                                !.extras = @ + 1]
     ELSE pc' = "closeCert" /\ UNCHANGED res
  /\ UNCHANGED <<arg, now, storeVars>>

(* fcert.Close(), fchain.Close() and ffullchain.Close(), then c.Cached *)
CloseWriter ==
  /\ pc \in {"closeCert", "closeChain", "closeFullchain"}
  /\ LET name == CASE pc = "closeCert" -> "cert" [] pc = "closeChain" -> "chain"
                   [] OTHER -> "fullchain"
         r == WriterClose(res, name)
     IN  res' = IF pc = "closeFullchain" THEN [r EXCEPT !.cached = @ \cup {res.cur}] ELSE r
  /\ pc' = CASE pc = "closeCert" -> "closeChain" [] pc = "closeChain" -> "closeFullchain"
             [] OTHER -> "loop"
  /\ UNCHANGED <<arg, now, storeVars>>

DownloadNext ==
  \/ downloadNext
  \/ downloadFails
  \/ WaitForCertificate
  \/ CreateWriter
  \/ EncodeCertificate
  \/ EncodeExtraCertificate
  \/ CloseWriter

(* C24: in every state during and after downloadCertificate, each             *)
(* certs/<certID> shows either none of cert, chain and fullchain or all       *)
(* three, and a file it shows holds all of its PEM blocks.                    *)
C24_BodiesInstalledAtomically ==
  \A c \in arg.certs :
    /\ DOMAIN res.dirs[c] \in {{}, BodyFiles}
    /\ "cert" \in DOMAIN res.dirs[c] => res.dirs[c]["cert"] = 1
    /\ "chain" \in DOMAIN res.dirs[c] => res.dirs[c]["chain"] = arg.extra[c]
    /\ "fullchain" \in DOMAIN res.dirs[c] => res.dirs[c]["fullchain"] = 1 + arg.extra[c]

----------------------------------------------------------------------------
(* SpecAuthz: determineNecessaryAuthorizations for a target's request.names   *)
(* and an account's authorizations, at the time now                           *)

MaxAuthzNames == 3     \* length of request.names
MaxExpiry == 2         \* latest expiry, and latest now

AuthzNames == {"a", "b", "c"}

AuthzInit ==
  /\ pc = "arg"
  /\ \E n \in 0..MaxAuthzNames :
     \E names \in [1..n -> AuthzNames], held \in SUBSET {"a", "b"} :
     \E auths \in [held -> 0..MaxExpiry] :
       arg = [t |-> [reqNames |-> names], a |-> [init |-> TRUE, auths |-> auths]]
  /\ now \in 0..MaxExpiry
  /\ res = <<>>
  /\ StoreInit

AuthzApply ==
  /\ pc = "arg"
  /\ pc' = "res"
  /\ res' = determineNecessaryAuthorizations(arg.t, arg.a)
  /\ UNCHANGED <<arg, now, storeVars>>

(* the position in names of the k-th index of keep *)
KthOf(keep, k) == CHOOSE i \in keep : Cardinality({j \in keep : j < i}) = k - 1

(* C25: determineNecessaryAuthorizations returns the names of request.names   *)
(* for which the account has no authorization with now < expiry, each         *)
(* occurrence once and in the order of request.names.                         *)
C25_NecessaryAuthorizations ==
  pc = "res" =>
    LET names == arg.t.reqNames
        covered(n) == n \in DOMAIN arg.a.auths /\ now < arg.a.auths[n]
        keep == {i \in 1..Len(names) : ~covered(names[i])}
    IN  /\ Len(res) = Cardinality(keep)
        /\ \A k \in 1..Len(res) : res[k] = names[KthOf(keep, k)]

(* names b, a, c with a valid authorization for a and an expired one for b:   *)
(* b and c are returned, in that order                                        *)
C25_Witness ==
  /\ pc = "res"
  /\ arg.t.reqNames = <<"b", "a", "c">>
  /\ DOMAIN arg.a.auths = {"a", "b"}
  /\ now < arg.a.auths["a"]
  /\ arg.a.auths["b"] <= now
  /\ res = <<"b", "c">>

----------------------------------------------------------------------------
(* SpecUncached: the Store of Spec where the server already holds a           *)
(* certificate of this account, issued for a key of keys/, that               *)
(* ImportCertificate can bring in by its URL                                  *)

KnownURL == 1

UncachedInit ==
  /\ pc = "idle" /\ arg = <<>> /\ res = <<>> /\ now = 0
  /\ dDesired = <<>> /\ dAccount = FALSE /\ dAuth = <<>>
  /\ dKeys = {1}
  /\ dCerts = <<>> /\ dLive = <<>>
  /\ srv = (KnownURL :> [names |-> {"a"}, notBefore |-> 0, notAfter |-> Validity,
                         chain |-> 1, key |-> 1])
  /\ open = FALSE
  /\ mTargets = <<>> /\ mMapping = <<>> /\ mCerts = <<>> /\ mAcct = NoAcct
  /\ todo = {} /\ merr = <<>> /\ err = "nil"
  /\ last = [op |-> "none", ret |-> "nil", loadOk |-> FALSE]
  /\ notified = <<>>
  /\ run = NoRun

UncachedNext ==
  \/ New
  \/ \E names \in AddNameLists, priority \in AddPriorities : AddTarget(names, priority)
  \/ ImportCertificate(KnownURL)
  \/ ReconcileBegin
  \/ DownloadUncached
  \/ ReloadAfterDownload
  \/ \E f \in todo : TargetStep(f)
  \/ ReconcileReturn

(* C26: a Reconcile goes to its targets at once only when s.certs has no      *)
(* uncached certificate; otherwise it downloads, and goes on to reload only   *)
(* when every download succeeded, and to the targets only when the reloaded   *)
(* s.certs has no uncached certificate; when it stops before the targets it   *)
(* has made no registration, authorization or certificate request for any     *)
(* target and it returns an error.                                            *)
C26_NoTargetPassWhileUncached ==
  [][/\ (pc = "idle" /\ pc' = "targets") => ~(\E id \in DOMAIN mCerts : ~mCerts[id].cached)
     /\ (pc = "idle" /\ pc' = "download") => (\E id \in DOMAIN mCerts : ~mCerts[id].cached)
     /\ (pc = "download" /\ pc' = "midload") => ~(\E id \in DOMAIN mCerts' : ~mCerts'[id].cached)
     /\ (pc = "midload" /\ pc' = "targets") => ~(\E id \in DOMAIN mCerts' : ~mCerts'[id].cached)
     /\ (pc \in {"download", "midload"} /\ pc' = "reload") =>
          run'.attempted = {} /\ run'.calls \subseteq {"download"}
     /\ (pc = "reload" /\ pc' = "idle") =>
          /\ last'.op = "Reconcile" /\ last'.ret # "nil"
          /\ run'.attempted = {} /\ run'.calls \subseteq {"download"}]_vars

(* a Reconcile that downloaded every uncached certificate it knew, found      *)
(* another one after the reload and failed, with a target loaded              *)
C26_Witness ==
  /\ pc = "idle" /\ last.op = "Reconcile" /\ last.ret = "uncached"
  /\ DOMAIN mTargets # {}
  /\ run.attempted = {}

(* C34: the Account the loaded targets refer to, read from disk or created   *)
(* by the load, has an initialised Authorizations map, and no Reconcile       *)
(* faults when obtainAuthorization records an authorization in it.            *)
C34_AuthorizationsInitialised ==
  /\ (open /\ DOMAIN mTargets # {}) => mAcct.init
  /\ last.ret # "panic"

(* C36: while a certificate that was stored and cached before this Reconcile  *)
(* began satisfies a target and does not need renewing, the loop of reconcile *)
(* skips the target: whatever the iteration order of s.certs, the certificate *)
(* findBestCertificateSatisfying returns for it does not need renewing, so    *)
(* requestCertificateForTarget is not called.                                 *)
C36_RenewalConverges ==
  pc = "targets" =>
    \A f \in todo :
      (\E id \in DOMAIN mCerts \cap run.certs :
         /\ mCerts[id].cached
         /\ doesCertSatisfy(CertView(mCerts[id]), mTargets[f])
         /\ ~certificateNeedsRenewing(CertView(mCerts[id]), now))
      => \A c \in BestResults(CertViews(mCerts), mTargets[f]) :
           /\ c # NoCert
           /\ ~certificateNeedsRenewing(CertView(mCerts[c]), now)

(* C37: after a mutating operation of the Store returned nil, every load of   *)
(* the state directory succeeds.                                              *)
C37_MutationsKeepLoadable ==
  (pc = "idle" /\ last.op = "other" /\ last.ret = "nil") =>
    \A r \in LoadResults : r.ok

(* C39: whenever RequestCertificate has succeeded, certs/<CID>/url holds the  *)
(* URL of the new certificate, downloaded or not; and a Reconcile that has    *)
(* retrieved the uncached certificates and reloaded requests no certificate   *)
(* for a target that one of the stored certificates, issued for its names,    *)
(* satisfies without needing renewing: findBestCertificateSatisfying returns  *)
(* a certificate that does not need renewing.                                 *)
C39_FailedDownloadIsRetrieved ==
  [][/\ \A u \in DOMAIN srv' \ DOMAIN srv :
          /\ determineCertificateID(u) \in DOMAIN dCerts'
          /\ dCerts'[determineCertificateID(u)].url = u
     /\ (pc = "targets" /\ "download" \in run.calls /\ run.attempted = {}) =>
          \A f \in todo :
            (\E id \in DOMAIN mCerts :
               /\ mCerts[id].cached
               /\ srv[mCerts[id].url].names = SeqToSet(mTargets[f].reqNames)
               /\ doesCertSatisfy(CertView(mCerts[id]), mTargets[f])
               /\ ~certificateNeedsRenewing(CertView(mCerts[id]), now))
            => \A c \in BestResults(CertViews(mCerts), mTargets[f]) :
                 /\ c # NoCert
                 /\ ~certificateNeedsRenewing(CertView(mCerts[c]), now)]_vars

(* C30: a loaded target whose reducedNames is empty owns no hostname of the   *)
(* mapping linkTargets walks, and the loop of reconcile never calls           *)
(* requestCertificateForTarget for it.                                        *)
C30_EmptyReducedContributesNothing ==
  [][\A f \in DOMAIN mTargets :
       mTargets[f].reduced = <<>> =>
         /\ \A h \in DOMAIN mMapping : mMapping[h] # f
         /\ (f \in run'.attempted => f \in run.attempted)]_vars

----------------------------------------------------------------------------
(* SpecRequest: requestCertificateForTarget for one target, an account with   *)
(* some authorizations, and every outcome of the ACME calls                   *)

MaxRequestNames == 3   \* length of request.names

RequestInit ==
  /\ pc = "arg" /\ res = <<>>
  /\ now = 1
  /\ \E n \in 1..MaxRequestNames :
     \E names \in [1..n -> AuthzNames], held \in SUBSET {"a"}, init \in BOOLEAN :
     \E auths \in [held -> {1, 2}] :
     \E az \in [AuthzNames -> AuthzOutcomes] :
     \E reg \in BOOLEAN, req \in BOOLEAN, dl \in BOOLEAN :
       /\ arg = [t |-> [reqNames |-> names], az |-> az, reg |-> reg, req |-> req, dl |-> dl]
       /\ mAcct = [init |-> init, auths |-> IF init THEN auths ELSE <<>>]
       /\ dAuth = auths
  /\ dDesired = <<>> /\ dAccount = TRUE /\ dKeys = {}
  /\ dCerts = <<>> /\ dLive = <<>> /\ srv = <<>>
  /\ open = TRUE
  /\ mTargets = <<>> /\ mMapping = <<>> /\ mCerts = <<>>
  /\ todo = {} /\ merr = <<>> /\ err = "nil"
  /\ last = [op |-> "none", ret |-> "nil", loadOk |-> FALSE]
  /\ notified = <<>>
  /\ run = NoRun

RequestApply ==
  /\ pc = "arg"
  /\ pc' = "res"
  /\ res' = requestCertificateForTarget(arg.t, arg.reg, arg.az, arg.req, arg.dl, 1)
  /\ UNCHANGED <<arg, now, storeVars>>

(* C27: the names obtainAuthorization is called for are the first of the      *)
(* names of request.names without a valid authorization, in their order, up   *)
(* to and with the first failure; a key is generated and a CSR submitted only *)
(* when the registration succeeded, every such name was tried and none of the *)
(* attempts failed.                                                           *)
C27_AuthorizationsInOrder ==
  pc = "res" =>
    LET names == arg.t.reqNames
        covered(n) == n \in DOMAIN mAcct.auths /\ now < mAcct.auths[n]
        needed == SelectSeq(names, LAMBDA n : ~covered(n))
        tried == res.tried
        failed(k) == arg.az[tried[k]] = "fail"
    IN  /\ Len(tried) <= Len(needed)
        /\ \A k \in 1..Len(tried) : tried[k] = needed[k]
        /\ \A k \in 1..Len(tried) : failed(k) => k = Len(tried) /\ res.status = "err"
        /\ ~arg.reg => tried = <<>>
        /\ (res.dKeys # dKeys \/ "csr" \in res.calls \/ res.srv # srv) =>
             /\ arg.reg
             /\ tried = needed
             /\ \A k \in 1..Len(tried) : ~failed(k)

(* three names, the first authorized, the second failing: the third is never  *)
(* tried and no key is generated; and a request that went through with two    *)
(* names tried in order                                                       *)
C27_Witness ==
  /\ pc = "res"
  /\ \/ /\ arg.t.reqNames = <<"a", "c", "b">>
        /\ res.tried = <<"c">> /\ arg.az["c"] = "fail"
        /\ res.dKeys = dKeys
     \/ /\ arg.t.reqNames = <<"c", "a", "b">>
        /\ res.tried = <<"c", "b">>
        /\ res.status = "ok"

----------------------------------------------------------------------------
(* SpecChan: the request-detected channel of the http-01 responder under      *)
(* concurrent handler invocations and a receiver                              *)

MaxHandlers == 3   \* handler goroutines that may run at once
MaxHits == 6       \* requests served in all

ChanCap == 1

(* a send that always queues *)
sendQueued(ch) == ch + 1

(* httpResponder.notify: select { case chan <- struct{}{}: default: } *)
trySend(ch) == IF ch < ChanCap THEN ch + 1 ELSE ch

ChanInit ==
  /\ pc = "chan" /\ arg = <<>>
  /\ res = [h |-> [i \in 1..MaxHandlers |-> "idle"], chan |-> 0,
            begun |-> 0, hits |-> 0, dropped |-> 0]
  /\ now = 1 /\ StoreInit

(* httpResponder.handle up to and with rw.Write(s.ka) *)
handleWrite(i) ==
  /\ pc = "chan"
  /\ res.h[i] = "idle"
  /\ res.begun < MaxHits
  /\ res' = [res EXCEPT !.h[i] = "written", !.begun = @ + 1]
  /\ UNCHANGED <<pc, arg, now, storeVars>>

(* the s.notify() that ends httpResponder.handle; hits counts the sends since *)
(* the last receive, dropped those of them that took the default branch       *)
notify(i) ==
  /\ pc = "chan"
  /\ res.h[i] = "written"
  /\ res' = [res EXCEPT !.h[i] = "idle", !.chan = trySend(@), !.hits = @ + 1,
                        !.dropped = @ + (IF trySend(res.chan) = res.chan THEN 1 ELSE 0)]
  /\ UNCHANGED <<pc, arg, now, storeVars>>

(* a receiver of RequestDetectedChan() takes the pending notification *)
receive ==
  /\ pc = "chan"
  /\ res.chan > 0
  /\ res' = [res EXCEPT !.chan = @ - 1, !.hits = 0, !.dropped = 0]
  /\ UNCHANGED <<pc, arg, now, storeVars>>

ChanNext ==
  \/ \E i \in 1..MaxHandlers : handleWrite(i)
  \/ \E i \in 1..MaxHandlers : notify(i)
  \/ receive

(* C28: the channel holds at most one notification, one is pending exactly    *)
(* when some handler has notified since the last receive, however many did,   *)
(* and a handler that has written its response can always finish.             *)
C28_ChanCoalesces ==
  pc = "chan" =>
    /\ res.chan \in {0, 1}
    /\ (res.chan = 1) <=> (res.hits > 0)
    /\ \A i \in 1..MaxHandlers : res.h[i] = "written" => ENABLED notify(i)

(* three hits have coalesced into the one pending notification while another  *)
(* handler is about to notify                                                 *)
C28_Witness ==
  /\ pc = "chan"
  /\ res.chan = 1 /\ res.hits = 3 /\ res.dropped = 2
  /\ \E i \in 1..MaxHandlers : res.h[i] = "written"

----------------------------------------------------------------------------
(* SpecTargets: loadTargets on target files whose satisfy.names and           *)
(* request.names are written in any form                                      *)

MaxTargetFiles == 2   \* files under desired/
MaxFileNames == 1     \* names of one list of a file

(* the forms of NameForms and a name validHostname rejects *)
WrittenNames == NameForms \cup {"_"}

WrittenNameLists == UNION {[1..n -> WrittenNames] : n \in 1..MaxFileNames}

(* normalizeNames returns nil for the satisfy.names of the file *)
normalizeNamesOK(file) ==
  \A i \in 1..Len(file.names) : validHostname(normalizeName(file.names[i]))

(* Store.loadTargets: the first validateTarget that fails ends the load *)
loadTargetsResult(desired) ==
  IF \A f \in DOMAIN desired : normalizeNamesOK(desired[f])
  THEN [ok |-> TRUE, targets |-> loadTargetsOf(desired)]
  ELSE [ok |-> FALSE, targets |-> <<>>]

TargetsInit ==
  /\ pc = "arg" /\ res = <<>> /\ now = 0
  /\ \E n \in 1..MaxTargetFiles :
       arg \in [1..n -> [names : WrittenNameLists,
                         reqNames : {<<>>} \cup WrittenNameLists,
                         priority : {0}]]
  /\ StoreInit

TargetsApply ==
  /\ pc = "arg"
  /\ pc' = "res"
  /\ res' = loadTargetsResult(arg)
  /\ UNCHANGED <<arg, now, storeVars>>

(* C31: after a successful load every name of every target's satisfy.names   *)
(* and request.names is lower-case, without a trailing dot and a valid        *)
(* hostname; a file with a name that is invalid once normalised fails the     *)
(* load.                                                                      *)
C31_LoadedNamesNormalised ==
  pc = "res" =>
    LET normal(n) == n \notin {"A", "A.", "a."} /\ n \in Hosts
        written(file) == SeqToSet(file.names) \cup SeqToSet(file.reqNames)
    IN  /\ res.ok =>
             \A f \in DOMAIN res.targets :
               \A n \in SeqToSet(res.targets[f].names) \cup SeqToSet(res.targets[f].reqNames) :
                 normal(n)
        /\ (\E f \in DOMAIN arg : \E n \in written(arg[f]) : normalizeName(n) \notin Hosts)
             => ~res.ok

----------------------------------------------------------------------------
(* SpecSelfTest: the self-test of Start, answered by the responder's own      *)
(* handler, interleaved with that handler and with the handlers of other      *)
(* requests.  Request 0 is the GET of the self-test.                          *)

MaxOtherRequests == 2   \* requests served besides the self-test's

(* a probe that finds nothing *)
receiveDefault(ch) == [got |-> FALSE, ch |-> ch]

(* select { case <-s.requestDetectedChan: default: } *)
tryReceive(ch) == [got |-> ch > 0, ch |-> IF ch > 0 THEN ch - 1 ELSE ch]

SelfTestInit ==
  /\ pc = "selfTest" /\ arg = <<>>
  /\ res = [h |-> [r \in 0..MaxOtherRequests |-> "none"], st |-> "start",
            response |-> "none", chan |-> 0, notifySupported |-> TRUE]
  /\ now = 1 /\ StoreInit

(* selfTest up to http.Get: the request reaches the handler *)
selfTestGet ==
  /\ res.st = "start"
  /\ res' = [res EXCEPT !.st = "get", !.h[0] = "called"]
  /\ UNCHANGED <<pc, arg, now, storeVars>>

(* another request reaches the handler *)
serveOther(r) ==
  /\ r # 0 /\ res.h[r] = "none"
  /\ res' = [res EXCEPT !.h[r] = "called"]
  /\ UNCHANGED <<pc, arg, now, storeVars>>

(* httpResponder.handle: rw.Write(s.ka) leaves the key authorization, which   *)
(* is shorter than the ResponseWriter's buffer, in that buffer                *)
serveWrite(r) ==
  /\ res.h[r] = "called"
  /\ res' = [res EXCEPT !.h[r] = "written",
                        !.response = IF r = 0 THEN "buffered" ELSE @]
  /\ UNCHANGED <<pc, arg, now, storeVars>>

(* httpResponder.handle: s.notify() *)
serveNotify(r) ==
  /\ res.h[r] = "written"
  /\ res' = [res EXCEPT !.h[r] = "notified", !.chan = trySend(@)]
  /\ UNCHANGED <<pc, arg, now, storeVars>>

(* handle returns and the server sends the buffered response *)
serveReturn(r) ==
  /\ res.h[r] = "notified"
  /\ res' = [res EXCEPT !.h[r] = "returned",
                        !.response = IF r = 0 THEN "sent" ELSE @]
  /\ UNCHANGED <<pc, arg, now, storeVars>>

(* selfTest: http.Get returns, the status is 200 and ioutil.ReadAll gives ka *)
selfTestReadAll ==
  /\ res.st = "get" /\ res.response = "sent"
  /\ res' = [res EXCEPT !.st = "probe"]
  /\ UNCHANGED <<pc, arg, now, storeVars>>

(* selfTest: the probe of the channel, which clears notifySupported when it   *)
(* finds nothing                                                              *)
selfTestProbe ==
  /\ res.st = "probe"
  /\ LET p == tryReceive(res.chan) IN
     res' = [res EXCEPT !.st = "drain", !.chan = p.ch,
                        !.notifySupported = IF p.got THEN @ ELSE FALSE]
  /\ UNCHANGED <<pc, arg, now, storeVars>>

(* selfTest: the loop that drains the channel, and the return to Start *)
selfTestDrain ==
  /\ res.st = "drain"
  /\ res' = [res EXCEPT !.st = "done", !.chan = 0]
  /\ UNCHANGED <<pc, arg, now, storeVars>>

SelfTestNext ==
  \/ selfTestGet
  \/ \E r \in 1..MaxOtherRequests : serveOther(r)
  \/ \E r \in 0..MaxOtherRequests : serveWrite(r)
  \/ \E r \in 0..MaxOtherRequests : serveNotify(r)
  \/ \E r \in 0..MaxOtherRequests : serveReturn(r)
  \/ selfTestReadAll
  \/ selfTestProbe
  \/ selfTestDrain

----------------------------------------------------------------------------
(* SpecQuickstart: cmdQuickstart on a state directory that may hold accounts, *)
(* a conf/target and targets: New, SetDefaultProvider with the URL the user   *)
(* chose, EnsureRegistration; an error ends the command (log.Fatale).         *)

QuickstartProviders == {"U", "V"}

(* Store.EnsureRegistration: the account getAccountByProviderString("")      *)
(* returns is registered, if AssistedUpsertRegistration succeeds              *)
EnsureRegistration ==
  /\ pc = "idle" /\ open
  /\ LET r == accountByProviderString("", mAcct, arg.defaultTarget)
         p == IF providerOrDefault("", arg.defaultTarget) = "" THEN DefaultDirectoryURL
              ELSE providerOrDefault("", arg.defaultTarget)
     IN  IF r.err
         THEN /\ UNCHANGED <<dAccount, mAcct>>
              /\ res' = [op |-> "EnsureRegistration", created |-> {}, referenced |-> {},
                         registered |-> {}]
              /\ last' = [op |-> "other", ret |-> "error", loadOk |-> FALSE]
         ELSE /\ mAcct' = r.accounts
              /\ dAccount' = [a \in DOMAIN dAccount \cup r.created |->
                                IF a \in DOMAIN dAccount THEN dAccount[a]
                                ELSE saveKey(r.accounts[a])]
              /\ \E a \in {b \in DOMAIN r.accounts : MatchesURL(decodeAccountURLPart(b[1]), p)},
                    reg \in BOOLEAN :
                   /\ res' = [op |-> "EnsureRegistration", created |-> r.created,
                              referenced |-> {}, registered |-> IF reg THEN {a} ELSE {}]
                   /\ last' = [op |-> "other", ret |-> IF reg THEN "nil" ELSE "error",
                               loadOk |-> FALSE]
  /\ notified' = <<>>
  /\ Forget
  /\ UNCHANGED <<pc, arg, now, dDesired, dAuth, dKeys, dCerts, dLive, srv, open,
                 mTargets, mMapping, mCerts, todo>>

QuickstartInit ==
  /\ pc = "idle" /\ now = 0
  /\ arg \in [conf : {"none"} \cup QuickstartProviders, defaultTarget : {"nil"}]
  /\ res = [op |-> "none", created |-> {}, referenced |-> {}]
  /\ \E n \in 0..MaxAccountTargets :
       dDesired \in [1..n -> [names : {<<"a">>}, priority : {0}, provider : TargetProviders]]
  /\ \E have \in SUBSET QuickstartProviders :
       dAccount = [a \in {determineAccountID(q, 1) : q \in have} |-> saveKey(1)]
  /\ dAuth = <<>> /\ dKeys = {}
  /\ dCerts = <<>> /\ dLive = <<>> /\ srv = <<>>
  /\ open = FALSE
  /\ mTargets = <<>> /\ mMapping = <<>> /\ mCerts = <<>> /\ mAcct = <<>>
  /\ todo = {} /\ merr = <<>> /\ err = "nil"
  /\ last = [op |-> "none", ret |-> "nil", loadOk |-> FALSE]
  /\ notified = <<>>
  /\ run = NoRun

(* cmdQuickstart: storage.New on the state directory *)
cmdQuickstartNew == last.op = "none" /\ AccountsNew

(* cmdQuickstart: s.SetDefaultProvider(promptServerURL()) *)
cmdQuickstartSetDefaultProvider ==
  /\ last.op = "New" /\ last.ret = "nil"
  /\ \E serverURL \in QuickstartProviders \cup {BadProviderURL} :
       SetDefaultProvider(serverURL)

(* cmdQuickstart: s.EnsureRegistration() *)
cmdQuickstartEnsureRegistration ==
  /\ res.op = "SetDefaultProvider" /\ last.ret = "nil"
  /\ EnsureRegistration

QuickstartNext ==
  \/ cmdQuickstartNew
  \/ cmdQuickstartSetDefaultProvider
  \/ cmdQuickstartEnsureRegistration

(* C40: EnsureRegistration runs only after SetDefaultProvider has stored the  *)
(* chosen URL in conf/target and in s.defaultTarget, and the account it       *)
(* registers, reused or created, has that URL as its BaseURL and is in        *)
(* s.accounts and in accounts/; a SetDefaultProvider given an invalid URL     *)
(* returns an error and changes neither.                                      *)
C40_QuickstartRegistersChosen ==
  [][/\ res'.op = "SetDefaultProvider" =>
          IF validProviderURL(res'.url)
          THEN last'.ret = "nil" /\ arg'.conf = res'.url /\ arg'.defaultTarget = res'.url
          ELSE last'.ret = "error" /\ arg' = arg
     /\ res'.op = "EnsureRegistration" =>
          /\ res.op = "SetDefaultProvider" /\ last.ret = "nil"
          /\ arg.conf = res.url /\ arg.defaultTarget = res.url
          /\ last'.ret = "nil" => res'.registered # {}
          /\ \A a \in res'.registered :
               /\ decodeAccountURLPart(a[1]) = res.url
               /\ a \in DOMAIN mAcct' /\ a \in DOMAIN dAccount'
          /\ \A a \in res'.created : decodeAccountURLPart(a[1]) = res.url]_vars

(* EnsureRegistration has registered an account it created for the chosen     *)
(* provider although accounts for another provider were on disk               *)
C40_Witness ==
  /\ res.op = "EnsureRegistration" /\ last.ret = "nil"
  /\ res.created # {} /\ res.registered = res.created
  /\ \E a \in DOMAIN dAccount : decodeAccountURLPart(a[1]) # arg.conf

Spec == Init /\ [][Next]_vars

SpecDisjoin == DisjoinInit /\ [][DisjoinApply]_vars

SpecBest == BestInit /\ [][BestApply]_vars

SpecRenew == RenewInit /\ [][RenewApply]_vars

SpecLoad == LoadInit /\ [][LoadApply]_vars

SpecAdd == AddInit /\ [][AddApply]_vars

SpecImport == ImportInit /\ [][ImportNext]_vars

SpecResponder == ResponderInit /\ [][ResponderNext]_vars

SpecRegistry == RegistryInit /\ [][RegistryNext]_vars

SpecAccounts == AccountsInit /\ [][AccountsNext]_vars

SpecDownload == DownloadInit /\ [][DownloadNext]_vars

SpecAuthz == AuthzInit /\ [][AuthzApply]_vars

SpecUncached == UncachedInit /\ [][UncachedNext]_vars

SpecRequest == RequestInit /\ [][RequestApply]_vars

SpecChan == ChanInit /\ [][ChanNext]_vars

SpecTargets == TargetsInit /\ [][TargetsApply]_vars

SpecSelfTest == SelfTestInit /\ [][SelfTestNext]_vars

SpecQuickstart == QuickstartInit /\ [][QuickstartNext]_vars

SpecRemove == RemoveInit /\ [][RemoveApply]_vars

SpecSatisfy == SatisfyInit /\ [][SatisfyApply]_vars

====
